---- MODULE Spec2Model ----
(***************************************************************************)
(* jest-axios: an in-process fake REST server.  The model follows          *)
(* src/src/index.js (Server, normalize, the verb interceptors) and the     *)
(* data managers (format, Model, Collection, Singleton), driven by the     *)
(* blog fixture of the test suite (class App).                             *)
(*                                                                         *)
(* JavaScript values are tagged records: Num, Str, Null, Undef, Fn (a      *)
(* computed field), Obj (a mapping of keys to values), Arr (a list).       *)
(* A handler both changes the stores and returns (or throws), so every     *)
(* operation is an operator from a db to [db, ret, exc].                   *)
(***************************************************************************)
EXTENDS Integers, Sequences, FiniteSets, TLC

VARIABLES db, last, calls, suite, baseUrl

vars == <<db, last, calls, suite, baseUrl>>

(* ---------------------------------------------------------------- bounds *)

\* Largest identifier a collection hands out in the model (guards add).
MaxHead == 4

\* Calls a test makes between two full resets.
MaxCalls == 3

\* Promises a test holds at once before it awaits them.
MaxHeld == 2

\* Longest path, in characters, given to the url parser on its own.
MaxPath == 5

(* ---------------------------------------------------------------- values *)

Num(k) == [t |-> "num", n |-> k]
Str(x) == [t |-> "str", s |-> x]
Null == [t |-> "null"]
Undef == [t |-> "undefined"]
Fn(f) == [t |-> "fn", f |-> f]
Obj(r) == [t |-> "obj", o |-> r]
Arr(q) == [t |-> "arr", a |-> q]

\* The empty mapping {}.
Empty == <<>>

\* obj[key] = value
Put(r, key, value) == [k \in (DOMAIN r) \cup {key} |-> IF k = key THEN value ELSE r[k]]

\* obj[key], undefined when the key is missing
Prop(r, key) == IF key \in DOMAIN r THEN r[key] ELSE Undef

\* Object.assign(target, source)
Assign(r, s) == [k \in (DOMAIN r) \cup (DOMAIN s) |-> IF k \in DOMAIN s THEN s[k] ELSE r[k]]

\* _.omit(obj, exclude)
Omit(r, exclude) == [k \in (DOMAIN r) \ exclude |-> r[k]]

\* JavaScript truthiness of an id: null, undefined and 0 are falsy.
Truthy(v) == v.t \notin {"null", "undefined"} /\ (v.t = "num" => v.n # 0)

\* `id in obj.data` for a collection: the keys are the stored identifiers.
InData(v, data) == v.t = "num" /\ v.n \in DOMAIN data

(* ---------------------------------------------------------------- errors *)

NoExc == [t |-> "none"]

\* errors.js: plain objects {status, message}; a message is the list of the
\* pieces of its template string (without the backquotes around the value).
NotFound(url) == [t |-> "err", status |-> 404, message |-> <<"URL ", url, " not in API">>]
Missing(id) ==
  [t |-> "err", status |-> 404,
   message |-> <<"Could not find either resource ", id, " or nested payload for resource.">>]
Forbidden == [t |-> "err", status |-> 403, message |-> <<"Unauthorized">>]
ServerError == [t |-> "err", status |-> 500, message |-> <<"Internal Server Error">>]

\* A JavaScript Error / TypeError object: it carries no status.
JsError(name) == [t |-> "jserror", name |-> name]

\* The result of an operation: the stores after it, what it returned, what it threw.
Ret(d, v) == [db |-> d, ret |-> v, exc |-> NoExc]
Throw(d, e) == [db |-> d, ret |-> Undef, exc |-> e]

(* ------------------------------------------------------------- fixture *)

\* class App (the blog fixture): data().  A collection is seeded from an array,
\* a singleton from an object; `author` is the computed field getAuthor.  The
\* history and comments stores and the `body` and `comments` fields are left out.
AppData ==
  [ profile |-> Obj("username" :> Str("admin")),
    posts   |-> Arr(<< [title |-> Str("Foo"), author_id |-> Num(1), author |-> Fn("getAuthor")],
                       [title |-> Str("Bar"), author_id |-> Num(1), author |-> Fn("getAuthor")] >>),
    authors |-> Arr(<< [name |-> Str("Jane Doe"), email |-> Str("jane@doe.com")],
                       [name |-> Str("John Doe"), email |-> Str("john@doe.com")] >>) ]

Models == DOMAIN AppData

(* ------------------------------------------------------- data managers *)

\* index without the increment.
indexMutant(max) == max

\* Server.index(max): the next identifier (max = max || 0; max + 1).
index(max) == max + 1

\* Collection.constructor: ids 1..n in declared order, head = n.
\* env tells which server instance the computed fields of the records close over:
\* "live" is the db the server holds, "seed" the db of a throwaway instance.
\* stray: obj.data holds a non-record property `data` (left by the Proxy set trap).
NewCollection(arr, env) ==
  [ kind |-> "collection",
    data |-> [i \in 1..Len(arr) |-> arr[i]],
    head |-> Len(arr),
    env  |-> env,
    stray |-> FALSE ]

\* Singleton.constructor: data is the seed object, backup a clone of it.
NewSingleton(obj) == [ kind |-> "singleton", data |-> obj, backup |-> obj ]

\* Server.constructor: one store per key of data().
NewDb(env) ==
  [ m \in Models |->
      IF AppData[m].t = "arr" THEN NewCollection(AppData[m].a, env)
      ELSE NewSingleton(AppData[m].o) ]

\* The stores of a throwaway instance (new this.constructor()), never written.
SeedDb == NewDb("seed")

RECURSIVE CollectionGet(_, _, _)
RECURSIVE EvalFields(_, _, _, _, _)

\* A computed field applied to its record.  getAuthor is
\* post => this.db.authors.get(post.author_id) || null, `this` being the
\* instance whose data() made the record.
EvalFn(d, f, obj, env) ==
  LET OrNull(r) == [db |-> IF env = "live" THEN r.db ELSE d,
                    ret |-> IF r.ret.t = "undefined" THEN Null ELSE r.ret]
  IN  OrNull(CollectionGet(IF env = "live" THEN d ELSE SeedDb, "authors",
                           Prop(obj, "author_id")))

\* The _.map loop of format over the function-valued keys.
EvalFields(d, obj, keys, acc, env) ==
  IF keys = {} THEN [db |-> d, ret |-> acc]
  ELSE LET k == CHOOSE x \in keys : TRUE
           Rest(e) == EvalFields(e.db, obj, keys \ {k}, Put(acc, k, e.ret), env)
       IN  Rest(EvalFn(d, obj[k].f, obj, env))

\* format without the write of obj.id: a stored `id` field then wins over the key.
formatMutant(d, obj, idv, env) ==
  LET data0 == IF Truthy(idv) THEN ("id" :> idv) ELSE Empty
      Formatted(ev) == [db |-> ev.db, obj |-> obj,
                        ret |-> Obj(Assign(Assign(data0, obj), ev.ret))]
  IN  Formatted(EvalFields(d, obj, {k \in DOMAIN obj : obj[k].t = "fn"}, Empty, env))

\* format(obj, id): a copy of obj with `id` and the computed fields evaluated;
\* for a numeric id it also writes obj.id.
format(d, obj, idv, env) ==
  LET data0 == IF Truthy(idv) THEN ("id" :> idv) ELSE Empty
      numeric == Truthy(idv) /\ idv.t = "num"
      obj1 == IF numeric THEN Put(obj, "id", idv) ELSE obj
      Formatted(ev) == [db |-> ev.db, obj |-> obj1,
                        ret |-> Obj(Assign(Assign(data0, obj1), ev.ret))]
  IN  Formatted(EvalFields(d, obj1, {k \in DOMAIN obj1 : obj1[k].t = "fn"}, Empty, env))

\* get keeping the formatted copy in the place of the record.
CollectionGetCaching(d, m, idv) ==
  IF ~InData(idv, d[m].data) THEN Ret(d, Undef)
  ELSE LET Stored(f) == Ret([f.db EXCEPT ![m].data[idv.n] = f.ret.o], f.ret)
       IN  Stored(format(d, d[m].data[idv.n], idv, d[m].env))

\* Collection.get(id)
CollectionGet(d, m, idv) ==
  IF ~InData(idv, d[m].data) THEN Ret(d, Undef)
  ELSE LET Stored(f) == Ret([f.db EXCEPT ![m].data[idv.n] = f.obj], f.ret)
       IN  Stored(format(d, d[m].data[idv.n], idv, d[m].env))

\* Ascending list of the members of a finite set of numbers (Object.keys order).
RECURSIVE Sorted(_)
Sorted(S) ==
  IF S = {} THEN <<>>
  ELSE LET x == CHOOSE y \in S : \A z \in S : y <= z IN <<x>> \o Sorted(S \ {x})

\* Collection.all(): get(id) for every key, in key order.
RECURSIVE AllFrom(_, _, _, _)
AllFrom(d, m, ids, acc) ==
  IF ids = <<>> THEN Ret(d, Arr(acc))
  ELSE LET Rest(r) == AllFrom(r.db, m, Tail(ids), Append(acc, r.ret))
       IN  Rest(CollectionGet(d, m, Num(Head(ids))))

CollectionAll(d, m) == AllFrom(d, m, Sorted(DOMAIN d[m].data), <<>>)

\* add with the identifier recomputed from the keys that are stored.
CollectionAddMutant(d, m, item) ==
  LET keys == Sorted(DOMAIN d[m].data)
      tmpl == IF keys # <<>> THEN d[m].data[Head(keys)] ELSE Empty
      inherit == {k \in DOMAIN tmpl : tmpl[k].t = "fn" /\ k \notin DOMAIN item}
      rec == [k \in (DOMAIN item) \cup inherit |-> IF k \in DOMAIN item THEN item[k] ELSE tmpl[k]]
      head == index(IF keys = <<>> THEN 0 ELSE keys[Len(keys)])
      d1 == [d EXCEPT ![m].head = head,
                      ![m].data = [i \in (DOMAIN @) \cup {head} |-> IF i = head THEN rec ELSE @[i]]]
  IN  CollectionGet(d1, m, Num(head))

\* add copying every computed field of the template, also over a field the
\* record brings itself.
CollectionAddTemplateWins(d, m, item) ==
  LET keys == Sorted(DOMAIN d[m].data)
      tmpl == IF keys # <<>> THEN d[m].data[Head(keys)] ELSE Empty
      inherit == {k \in DOMAIN tmpl : tmpl[k].t = "fn"}
      rec == [k \in (DOMAIN item) \cup inherit |-> IF k \in inherit THEN tmpl[k] ELSE item[k]]
      head == index(d[m].head)
      d1 == [d EXCEPT ![m].head = head,
                      ![m].data = [i \in (DOMAIN @) \cup {head} |-> IF i = head THEN rec ELSE @[i]]]
  IN  CollectionGet(d1, m, Num(head))

\* Collection.add(data)
CollectionAdd(d, m, item) ==
  LET keys == Sorted(DOMAIN d[m].data)
      tmpl == IF keys # <<>> THEN d[m].data[Head(keys)] ELSE Empty
      inherit == {k \in DOMAIN tmpl : tmpl[k].t = "fn" /\ k \notin DOMAIN item}
      rec == [k \in (DOMAIN item) \cup inherit |-> IF k \in DOMAIN item THEN item[k] ELSE tmpl[k]]
      head == index(d[m].head)
      d1 == [d EXCEPT ![m].head = head,
                      ![m].data = [i \in (DOMAIN @) \cup {head} |-> IF i = head THEN rec ELSE @[i]]]
  IN  CollectionGet(d1, m, Num(head))

\* update putting the partial in the place of the record.
CollectionUpdateReplace(d, m, idv, partial) ==
  IF ~InData(idv, d[m].data) THEN Throw(d, JsError("Error"))
  ELSE CollectionGet([d EXCEPT ![m].data[idv.n] = partial], m, idv)

\* Collection.update(id, data)
CollectionUpdate(d, m, idv, partial) ==
  IF ~InData(idv, d[m].data) THEN Throw(d, JsError("Error"))
  ELSE CollectionGet([d EXCEPT ![m].data[idv.n] = Assign(@, partial)], m, idv)

\* Collection.remove(id)
CollectionRemove(d, m, idv) ==
  IF ~InData(idv, d[m].data) THEN Ret(d, Undef)
  ELSE Ret([d EXCEPT ![m].data = [i \in (DOMAIN @) \ {idv.n} |-> @[i]]], Undef)


\* Property read on a Singleton through its Proxy get trap: a key of the data wins
\* over the object's own property of the same name.
SingletonProxyGet(s, prop) ==
  IF prop \in DOMAIN s.data THEN format(<<>>, s.data, Undef, "live").ret.o[prop]
  ELSE IF prop = "data" THEN Obj(s.data)
  ELSE IF prop = "backup" THEN Obj(s.backup)
  ELSE Undef

\* format(this.data) of a Singleton method (get, all, json).
SingletonGet(d, m) ==
  LET Formatted(target) == IF target.t = "obj"
                           THEN Ret(d, format(d, target.o, Undef, "live").ret)
                           ELSE Ret(d, Obj(Empty))
  IN  Formatted(SingletonProxyGet(d[m], "data"))

\* this.data[key] = value inside a Singleton method: this.data is read through
\* the get trap, so it is the nested `data` object once the data has that key.
SingletonWrite(d, m, key, value) ==
  IF "data" \in DOMAIN d[m].data
  THEN IF d[m].data["data"].t = "obj"
       THEN Ret([d EXCEPT ![m].data["data"] = Obj(Put(@.o, key, value))], Undef)
       ELSE Throw(d, JsError("TypeError"))
  ELSE Ret([d EXCEPT ![m].data = Put(@, key, value)], Undef)

RECURSIVE SingletonWriteAll(_, _, _, _)
SingletonWriteAll(d, m, partial, keys) ==
  IF keys = {} THEN Ret(d, Undef)
  ELSE LET k == CHOOSE x \in keys : TRUE
           Rest(w) == IF w.exc # NoExc THEN w
                      ELSE SingletonWriteAll(w.db, m, partial, keys \ {k})
       IN  Rest(SingletonWrite(d, m, k, partial[k]))

\* Singleton.update(data)
SingletonUpdate(d, m, partial) ==
  LET Done(w) == IF w.exc # NoExc THEN w ELSE SingletonGet(w.db, m)
  IN  Done(SingletonWriteAll(d, m, partial, DOMAIN partial))

\* Model.reset() on a Singleton: both assignments go through the Proxy set trap,
\* which stores them as keys of the data (obj.data[prop] = value).
SingletonReset(d, m) ==
  LET Head_(d1) ==
        Ret([d1 EXCEPT ![m].data = Put(@, "head", SingletonProxyGet(d1[m], "backupIndex"))],
            Undef)
  IN  Head_([d EXCEPT ![m].data = Put(@, "data", SingletonProxyGet(d[m], "backup"))])

\* Model.reset() on a Collection: `this.data = ...` goes through the Proxy set trap,
\* which stores the constructor's array under obj.data['data'] and leaves the
\* records alone; `this.head = this.backupIndex` restores the counter.
CollectionReset(d, m) ==
  Ret([d EXCEPT ![m].stray = TRUE, ![m].head = Len(AppData[m].a)], Undef)


(* -------------------------------------------------------------- binder *)

\* Options of a declarative endpoint; "" stands for an option left undefined.
Options(type, model, exclude, relation, key) ==
  [type |-> type, model |-> model, exclude |-> exclude, relation |-> relation, key |-> key]

\* `id && relation && key`
Nested(opt, idv) == Truthy(idv) /\ opt.relation # "" /\ opt.key # ""

\* _.omit(record, exclude) on a returned value; a thrown error passes through.
OmitRet(r, exclude) ==
  IF r.exc # NoExc \/ r.ret.t # "obj" THEN r ELSE Ret(r.db, Obj(Omit(r.ret.o, exclude)))

\* Server.collection(options).get
ServerCollectionGet(d, opt, idv) ==
  LET all == CollectionAll(d, opt.model)
      data == [i \in 1..Len(all.ret.a) |-> Obj(Omit(all.ret.a[i].o, opt.exclude))]
      keep == IF Nested(opt, idv)
              THEN SelectSeq(data, LAMBDA item : Prop(item.o, opt.key) = idv)
              ELSE data
  IN  Ret(all.db, Arr(keep))

\* process(item) of Server.collection(options).post
CollectionPostItem(d, opt, item, idv) ==
  IF item.t # "obj" THEN Throw(d, JsError("TypeError"))
  ELSE LET it == IF Nested(opt, idv) THEN Put(item.o, opt.key, idv) ELSE item.o
       IN  IF "id" \in DOMAIN it
           THEN OmitRet(CollectionUpdate(d, opt.model, it["id"], it), opt.exclude)
           ELSE OmitRet(CollectionAdd(d, opt.model, it), opt.exclude)

\* process(item) of Server.collection(options).put
CollectionPutItem(d, opt, item, idv) ==
  IF item.t # "obj" THEN Throw(d, JsError("TypeError"))
  ELSE LET it == Put(item.o, opt.key, idv)
       IN  OmitRet(CollectionUpdate(d, opt.model, Prop(it, "id"), it), opt.exclude)

\* data.map collecting the results last first.
RECURSIVE MapItemsMutant(_, _, _, _, _, _)
MapItemsMutant(d, opt, items, idv, isPut, acc) ==
  IF items = <<>> THEN Ret(d, Arr(acc))
  ELSE LET Rest(r) == IF r.exc # NoExc THEN r
                      ELSE MapItemsMutant(r.db, opt, Tail(items), idv, isPut, <<r.ret>> \o acc)
       IN  Rest(IF isPut THEN CollectionPutItem(d, opt, Head(items), idv)
                ELSE CollectionPostItem(d, opt, Head(items), idv))

\* data.map(item => process(item)): in order, stopping at the first throw.
RECURSIVE MapItems(_, _, _, _, _, _)
MapItems(d, opt, items, idv, isPut, acc) ==
  IF items = <<>> THEN Ret(d, Arr(acc))
  ELSE LET Rest(r) == IF r.exc # NoExc THEN r
                      ELSE MapItems(r.db, opt, Tail(items), idv, isPut, Append(acc, r.ret))
       IN  Rest(IF isPut THEN CollectionPutItem(d, opt, Head(items), idv)
                ELSE CollectionPostItem(d, opt, Head(items), idv))

\* Server.collection(options).post
ServerCollectionPost(d, opt, data, idv) ==
  IF data.t = "arr" THEN MapItems(d, opt, data.a, idv, FALSE, <<>>)
  ELSE CollectionPostItem(d, opt, data, idv)

\* Server.collection(options).put
ServerCollectionPut(d, opt, data, idv) ==
  IF ~(Nested(opt, idv) /\ data.t = "arr") THEN Ret(d, Undef)
  ELSE MapItems(d, opt, data.a, idv, TRUE, <<>>)

\* get reading the model store under the path id, relation or not.
ServerModelGetMutant(d, opt, idv) ==
  IF ~InData(idv, d[opt.model].data) THEN Ret(d, Undef)
  ELSE OmitRet(CollectionGet(d, opt.model, idv), opt.exclude)

\* Server.model(options).get
ServerModelGet(d, opt, idv) ==
  IF Nested(opt, idv) /\ ~InData(idv, d[opt.relation].data) THEN Ret(d, Undef)
  ELSE LET id2 == IF Nested(opt, idv)
                  THEN Prop(d[opt.relation].data[idv.n], opt.key)
                  ELSE idv
       IN  IF ~InData(id2, d[opt.model].data) THEN Ret(d, Undef)
           ELSE OmitRet(CollectionGet(d, opt.model, id2), opt.exclude)

\* data.id of a request body
DataId(data) == IF data.t = "obj" THEN Prop(data.o, "id") ELSE Undef

\* The own enumerable properties of a request body (_.map over it); bodies sent to
\* a model or singleton endpoint are objects or undefined.
DataMap(data) == IF data.t = "obj" THEN data.o ELSE Empty

\* put with relation answering with the target but leaving the relation record alone.
ServerModelPutMutant(d, opt, data, idv) ==
  IF Nested(opt, idv)
  THEN IF ~InData(idv, d[opt.relation].data) THEN Ret(d, Undef)
       ELSE IF data.t = "undefined" THEN Throw(d, JsError("TypeError"))
       ELSE IF ~InData(DataId(data), d[opt.model].data) THEN Ret(d, Undef)
       ELSE CollectionGet(d, opt.model, DataId(data))
  ELSE IF ~InData(idv, d[opt.model].data) THEN Ret(d, Undef)
       ELSE OmitRet(CollectionUpdate(d, opt.model, idv, DataMap(data)), opt.exclude)

\* Server.model(options).put
ServerModelPut(d, opt, data, idv) ==
  IF Nested(opt, idv)
  THEN IF ~InData(idv, d[opt.relation].data) THEN Ret(d, Undef)
       ELSE IF data.t = "undefined" THEN Throw(d, JsError("TypeError"))
       ELSE IF ~InData(DataId(data), d[opt.model].data) THEN Ret(d, Undef)
       ELSE CollectionGet([d EXCEPT ![opt.relation].data[idv.n] = Put(@, opt.key, DataId(data))],
                          opt.model, DataId(data))
  ELSE IF ~InData(idv, d[opt.model].data) THEN Ret(d, Undef)
       ELSE OmitRet(CollectionUpdate(d, opt.model, idv, DataMap(data)), opt.exclude)

\* post with relation adding a record whether or not the payload carries an id.
ServerModelPostMutant(d, opt, data, idv) ==
  IF ~(Nested(opt, idv) /\ data.t = "obj") THEN Ret(d, Undef)
  ELSE LET Linked(res, link) == IF link.exc # NoExc THEN link ELSE Ret(link.db, res.ret)
           Link(res) == IF res.exc # NoExc THEN res
                        ELSE Linked(res, CollectionUpdate(res.db, opt.relation, idv,
                                                          opt.key :> Prop(res.ret.o, "id")))
       IN  Link(OmitRet(CollectionAdd(d, opt.model, data.o), opt.exclude))

\* Server.model(options).post
ServerModelPost(d, opt, data, idv) ==
  IF ~(Nested(opt, idv) /\ data.t = "obj") THEN Ret(d, Undef)
  ELSE LET Linked(res, link) == IF link.exc # NoExc THEN link ELSE Ret(link.db, res.ret)
           Link(res) == IF res.exc # NoExc THEN res
                        ELSE Linked(res, CollectionUpdate(res.db, opt.relation, idv,
                                                          opt.key :> Prop(res.ret.o, "id")))
       IN  Link(IF "id" \in DOMAIN data.o
                THEN OmitRet(CollectionUpdate(d, opt.model, data.o["id"], data.o), opt.exclude)
                ELSE OmitRet(CollectionAdd(d, opt.model, data.o), opt.exclude))

\* delete without the relation branch: the record itself is removed.
ServerModelDeleteMutant(d, opt, idv) == CollectionRemove(d, opt.model, idv)

\* Server.model(options).delete
ServerModelDelete(d, opt, idv) ==
  IF Nested(opt, idv)
  THEN LET Done(u) == IF u.exc # NoExc THEN u ELSE Ret(u.db, Undef)
       IN  Done(CollectionUpdate(d, opt.relation, idv, opt.key :> Null))
  ELSE CollectionRemove(d, opt.model, idv)

\* Server.singleton(options): get, put, delete
ServerSingletonGet(d, opt) == OmitRet(SingletonGet(d, opt.model), opt.exclude)

ServerSingletonPut(d, opt, data) ==
  OmitRet(SingletonUpdate(d, opt.model, DataMap(data)), opt.exclude)

ServerSingletonDelete(d, opt) == SingletonReset(d, opt.model)


(* ----------------------------------------------------------- endpoints *)

\* A path is the list of its segments: <<"posts", "1", "author">> is /posts/1/author.
\* Number(s) of the all-digit segments that occur in requests.
DigitString == [s \in {"0", "1", "2", "3", "4", "5"} |->
                  CASE s = "0" -> 0 [] s = "1" -> 1 [] s = "2" -> 2
                    [] s = "3" -> 3 [] s = "4" -> 4 [] s = "5" -> 5]

\* _.cast(id): a numeric string becomes a number.
cast(seg) == IF seg \in DOMAIN DigitString THEN Num(DigitString[seg]) ELSE Str(seg)

\* normalize(url): the first segment made of digits is the id and is replaced by :id.
normalize(url) ==
  LET hits == {i \in 1..Len(url) : url[i] \in DOMAIN DigitString}
  IN  IF hits = {} THEN [id |-> Null, endpoint |-> url]
      ELSE LET i == CHOOSE x \in hits : \A y \in hits : x <= y
           IN  [id |-> cast(url[i]),
                endpoint |-> [j \in 1..Len(url) |-> IF j = i THEN ":id" ELSE url[j]]]

NoOptions == Options("null", "", {}, "", "")

\* class App: api(), for the stores kept above.  Three entries are not the
\* fixture's: /posts/:id/author is declared with exclude ['email'], so that a
\* handler set with relation and key also carries an exclude list,
\* /authors/:id/titles is /authors/:id/posts with its key author_id added to the
\* exclude list, and /hidden is an endpoint registered as null.
AppApi ==
  ( <<"profile">> :> Options("singleton", "profile", {}, "", "") ) @@
  ( <<"posts">> :> Options("collection", "posts", {"author"}, "", "") ) @@
  ( <<"posts", ":id">> :> Options("model", "posts", {"author_id"}, "", "") ) @@
  ( <<"posts", ":id", "author">> :> Options("model", "authors", {"email"}, "posts", "author_id") ) @@
  ( <<"posts", ":id", "archive">> :> Options("archive", "posts", {}, "", "") ) @@
  ( <<"authors">> :> Options("collection", "authors", {}, "", "") ) @@
  ( <<"authors", ":id">> :> Options("model", "authors", {}, "", "") ) @@
  ( <<"authors", ":id", "posts">> :> Options("collection", "posts", {"author"}, "authors", "author_id") ) @@
  ( <<"authors", ":id", "titles">> :>
      Options("collection", "posts", {"author", "author_id"}, "authors", "author_id") ) @@
  ( <<"errors", "server">> :> Options("server", "", {}, "", "") ) @@
  ( <<"errors", "forbidden">> :> Options("forbidden", "", {}, "", "") ) @@
  ( <<"hidden">> :> NoOptions )

\* The verbs a handler set binds.
Methods(opt) ==
  CASE opt.type = "collection" -> {"get", "post", "put"}
    [] opt.type = "model" -> {"get", "put", "post", "delete"}
    [] opt.type = "singleton" -> {"get", "put", "delete"}
    [] opt.type = "archive" -> {"post"}
    [] opt.type \in {"server", "forbidden"} -> {"get"}
    [] OTHER -> {}

\* '/posts/:id/archive'.post of the fixture
ArchivePost(d, data, idv) ==
  LET Done(u) == IF u.exc # NoExc THEN u ELSE CollectionGet(u.db, "posts", idv)
  IN  Done(CollectionUpdate(d, "posts", idv, "archived" :> [t |-> "bool", b |-> TRUE]))

\* The handlers of post and put called with (id, data).
InvokeSwapped(d, opt, verb, data, idv) ==
  CASE opt.type = "collection" /\ verb = "get" -> ServerCollectionGet(d, opt, idv)
    [] opt.type = "collection" /\ verb = "post" -> ServerCollectionPost(d, opt, idv, data)
    [] opt.type = "collection" /\ verb = "put" -> ServerCollectionPut(d, opt, idv, data)
    [] opt.type = "model" /\ verb = "get" -> ServerModelGet(d, opt, idv)
    [] opt.type = "model" /\ verb = "put" -> ServerModelPut(d, opt, idv, data)
    [] opt.type = "model" /\ verb = "post" -> ServerModelPost(d, opt, idv, data)
    [] opt.type = "model" /\ verb = "delete" -> ServerModelDelete(d, opt, idv)
    [] opt.type = "singleton" /\ verb = "get" -> ServerSingletonGet(d, opt)
    [] opt.type = "singleton" /\ verb = "put" -> ServerSingletonPut(d, opt, idv)
    [] opt.type = "singleton" /\ verb = "delete" -> ServerSingletonDelete(d, opt)
    [] opt.type = "archive" /\ verb = "post" -> ArchivePost(d, idv, data)
    [] opt.type = "server" /\ verb = "get" -> Throw(d, ServerError)
    [] opt.type = "forbidden" /\ verb = "get" -> Throw(d, Forbidden)

\* this._api[endpoint][verb](...) with the dispatcher's arguments:
\* (id) for get and delete, (data, id) for post and put.
Invoke(d, opt, verb, data, idv) ==
  CASE opt.type = "collection" /\ verb = "get" -> ServerCollectionGet(d, opt, idv)
    [] opt.type = "collection" /\ verb = "post" -> ServerCollectionPost(d, opt, data, idv)
    [] opt.type = "collection" /\ verb = "put" -> ServerCollectionPut(d, opt, data, idv)
    [] opt.type = "model" /\ verb = "get" -> ServerModelGet(d, opt, idv)
    [] opt.type = "model" /\ verb = "put" -> ServerModelPut(d, opt, data, idv)
    [] opt.type = "model" /\ verb = "post" -> ServerModelPost(d, opt, data, idv)
    [] opt.type = "model" /\ verb = "delete" -> ServerModelDelete(d, opt, idv)
    [] opt.type = "singleton" /\ verb = "get" -> ServerSingletonGet(d, opt)
    [] opt.type = "singleton" /\ verb = "put" -> ServerSingletonPut(d, opt, data)
    [] opt.type = "singleton" /\ verb = "delete" -> ServerSingletonDelete(d, opt)
    [] opt.type = "archive" /\ verb = "post" -> ArchivePost(d, data, idv)
    [] opt.type = "server" /\ verb = "get" -> Throw(d, ServerError)
    [] opt.type = "forbidden" /\ verb = "get" -> Throw(d, Forbidden)

(* ---------------------------------------------------------- dispatcher *)

Pending == [state |-> "pending"]
Resolved(status, data) == [state |-> "resolved", status |-> status, data |-> data]
Rejected(reason) == [state |-> "rejected", reason |-> reason]

\* A promise on which the last resolve() or reject() wins.
SettleMutant(p, q) == q

\* resolve() and reject() settle a promise once; later calls are ignored.
Settle(p, q) == IF p.state = "pending" THEN q ELSE p

\* Every verb resolving with 200.
StatusOfMutant(verb) == 200

\* The status an interceptor resolves with.
StatusOf(verb) ==
  CASE verb = "get" -> 200 [] verb = "post" -> 201 [] verb = "put" -> 200 [] verb = "delete" -> 204

\* The executor without the check for a missing method: the call of undefined
\* throws first.
DispatchMutant(d, verb, url, data) ==
  LET n == normalize(url)
      known == n.endpoint \in DOMAIN AppApi /\ AppApi[n.endpoint].type # "null"
      p1 == IF known THEN Pending ELSE Rejected(NotFound(url))
  IN  IF ~known
      THEN [db |-> d, promise |-> Settle(p1, Rejected(JsError("TypeError"))), invoked |-> FALSE]
      ELSE LET opt == AppApi[n.endpoint]
           IN  IF verb \notin Methods(opt)
               THEN [db |-> d, promise |-> Settle(p1, Rejected(JsError("TypeError"))),
                     invoked |-> FALSE]
               ELSE LET p3(r) == IF r.exc # NoExc THEN Settle(p1, Rejected(r.exc))
                                 ELSE IF verb = "get" /\ r.ret.t = "undefined"
                                      THEN Settle(p1, Rejected(Missing(n.id)))
                                      ELSE p1
                        Done(r) == [db |-> r.db,
                                    promise |-> Settle(p3(r), Resolved(StatusOf(verb), r.ret)),
                                    invoked |-> TRUE]
                    IN  Done(Invoke(d, opt, verb, data, n.id))

\* The executor without the rejection of an undefined result.
DispatchNoMissing(d, verb, url, data) ==
  LET n == normalize(url)
      known == n.endpoint \in DOMAIN AppApi /\ AppApi[n.endpoint].type # "null"
      p1 == IF known THEN Pending ELSE Rejected(NotFound(url))
  IN  IF ~known
      THEN [db |-> d, promise |-> Settle(p1, Rejected(JsError("TypeError"))), invoked |-> FALSE]
      ELSE LET opt == AppApi[n.endpoint]
               bound == verb \in Methods(opt)
               p2 == IF bound THEN p1 ELSE Settle(p1, Rejected(NotFound(url)))
           IN  IF ~bound
               THEN [db |-> d, promise |-> Settle(p2, Rejected(JsError("TypeError"))),
                     invoked |-> FALSE]
               ELSE LET p3(r) == IF r.exc # NoExc THEN Settle(p2, Rejected(r.exc)) ELSE p2
                        Done(r) == [db |-> r.db,
                                    promise |-> Settle(p3(r), Resolved(StatusOf(verb), r.ret)),
                                    invoked |-> TRUE]
                    IN  Done(Invoke(d, opt, verb, data, n.id))

\* The executor with every error a handler throws turned into a ServerError.
DispatchWrapsErrors(d, verb, url, data) ==
  LET n == normalize(url)
      known == n.endpoint \in DOMAIN AppApi /\ AppApi[n.endpoint].type # "null"
      p1 == IF known THEN Pending ELSE Rejected(NotFound(url))
  IN  IF ~known
      THEN [db |-> d, promise |-> Settle(p1, Rejected(JsError("TypeError"))), invoked |-> FALSE]
      ELSE LET opt == AppApi[n.endpoint]
               bound == verb \in Methods(opt)
               p2 == IF bound THEN p1 ELSE Settle(p1, Rejected(NotFound(url)))
           IN  IF ~bound
               THEN [db |-> d, promise |-> Settle(p2, Rejected(JsError("TypeError"))),
                     invoked |-> FALSE]
               ELSE LET p3(r) == IF r.exc # NoExc THEN Settle(p2, Rejected(ServerError))
                                 ELSE IF verb = "get" /\ r.ret.t = "undefined"
                                      THEN Settle(p2, Rejected(Missing(n.id)))
                                      ELSE p2
                        Done(r) == [db |-> r.db,
                                    promise |-> Settle(p3(r), Resolved(StatusOf(verb), r.ret)),
                                    invoked |-> TRUE]
                    IN  Done(Invoke(d, opt, verb, data, n.id))

\* The executor of the promise an interceptor returns (Server.init).
\* Returns the stores afterwards, the settled promise and whether a handler ran.
Dispatch(d, verb, url, data) ==
  LET n == normalize(url)
      known == n.endpoint \in DOMAIN AppApi /\ AppApi[n.endpoint].type # "null"
      p1 == IF known THEN Pending ELSE Rejected(NotFound(url))
  IN  IF ~known
      THEN \* this._api[endpoint].get throws a TypeError: the executor ends
           [db |-> d, promise |-> Settle(p1, Rejected(JsError("TypeError"))), invoked |-> FALSE]
      ELSE LET opt == AppApi[n.endpoint]
               bound == verb \in Methods(opt)
               p2 == IF bound THEN p1 ELSE Settle(p1, Rejected(NotFound(url)))
           IN  IF ~bound
               THEN \* method(...) on undefined throws a TypeError
                    [db |-> d, promise |-> Settle(p2, Rejected(JsError("TypeError"))),
                     invoked |-> FALSE]
               ELSE LET p3(r) == IF r.exc # NoExc THEN Settle(p2, Rejected(r.exc))
                                 ELSE IF verb = "get" /\ r.ret.t = "undefined"
                                      THEN Settle(p2, Rejected(Missing(n.id)))
                                      ELSE p2
                        Done(r) == [db |-> r.db,
                                    promise |-> Settle(p3(r), Resolved(StatusOf(verb), r.ret)),
                                    invoked |-> TRUE]
                    IN  Done(Invoke(d, opt, verb, data, n.id))


(* ------------------------------------------------------------ lifecycle *)

\* Whether the seed of a collection carries computed fields.
HasComputed(m) ==
  AppData[m].t = "arr" /\ \E i \in 1..Len(AppData[m].a) :
                             \E k \in DOMAIN AppData[m].a[i] : AppData[m].a[i][k].t = "fn"

\* Names every plain object inherits from Object.prototype: `name in obj.db` is
\* true for them although obj.db holds no store of that name.
InheritedNames == {"constructor", "toString"}

\* reset() done store by store with Model.reset() instead of a fresh instance.
RECURSIVE ResetEach(_, _)
ResetEach(d, ms) ==
  IF ms = {} THEN d
  ELSE LET m == CHOOSE x \in ms : TRUE
       IN  ResetEach(IF d[m].kind = "collection" THEN CollectionReset(d, m).db
                     ELSE SingletonReset(d, m).db, ms \ {m})

ServerResetMutant(d, arg) ==
  IF arg.t = "undefined" THEN Ret(ResetEach(d, Models), Undef)
  ELSE IF arg.t = "str" /\ arg.s \in Models
       THEN Ret([d EXCEPT ![arg.s] = NewDb(IF HasComputed(arg.s) THEN "seed" ELSE "live")[arg.s]],
                Undef)
       ELSE IF arg.t = "str" /\ arg.s \in InheritedNames
            THEN \* this.db[model] = obj.db[model]: an inherited function, no store
                 Ret(d, Undef)
            ELSE Throw(d, JsError("Error"))

\* reset(model) replacing every store whatever the name.
ServerResetAll(d, arg) ==
  IF arg.t = "undefined" \/ (arg.t = "str" /\ arg.s \in Models) THEN Ret(NewDb("live"), Undef)
  ELSE IF arg.t = "str" /\ arg.s \in InheritedNames THEN Ret(d, Undef)
  ELSE Throw(d, JsError("Error"))

\* Server.reset(model): a throwaway instance is built first; its stores replace
\* all of this.db, or the one named.  The computed fields of a store taken alone
\* keep reading the throwaway instance's db.
ServerReset(d, arg) ==
  IF arg.t = "undefined" THEN Ret(NewDb("live"), Undef)
  ELSE IF arg.t = "str" /\ arg.s \in Models
       THEN Ret([d EXCEPT ![arg.s] = NewDb(IF HasComputed(arg.s) THEN "seed" ELSE "live")[arg.s]],
                Undef)
       ELSE IF arg.t = "str" /\ arg.s \in InheritedNames
            THEN \* this.db[model] = obj.db[model]: an inherited function, no store
                 Ret(d, Undef)
            ELSE Throw(d, JsError("Error"))

\* Object.keys(this.db): the stores in the order data() declares them.
ModelOrder == << "profile", "posts", "authors" >>

\* Model.json() of a store: this.all().
StoreJson(d, m) ==
  IF d[m].kind = "collection" THEN CollectionAll(d, m) ELSE SingletonGet(d, m)

\* Server.dump(): result[key] = this.db[key].json() for every key.
RECURSIVE DumpFrom(_, _, _)
DumpFrom(d, ms, acc) ==
  IF ms = <<>> THEN Ret(d, acc)
  ELSE LET Rest(j) == IF j.exc # NoExc THEN j
                      ELSE DumpFrom(j.db, Tail(ms), acc @@ (Head(ms) :> j.ret))
       IN  Rest(StoreJson(d, Head(ms)))

ServerDump(d) == DumpFrom(d, ModelOrder, <<>>)

(* -------------------------------------------------------------- requests *)

\* Identifiers that occur in request paths.
PathIds == {"0", "1", "2", "3"}

\* The paths a test file calls, by test file: every pattern it uses with :id
\* filled in.  /errors/missing is not registered.  The paths of `client` are
\* those of a client made with axios.create, given relative to its base url.
SuiteUrls ==
  [ singleton  |-> { <<"profile">> },
    errors     |-> { <<"errors", "server">>, <<"errors", "forbidden">>,
                     <<"errors", "missing">>, <<"hidden">> },
    collection |-> { <<"posts">> } \cup { <<"posts", i>> : i \in PathIds },
    model      |-> { <<"authors", i>> : i \in PathIds } \cup { <<"posts", i>> : i \in PathIds },
    nesting    |-> { <<"posts", i, "author">> : i \in PathIds },
    filter     |-> { <<"authors", i, "posts">> : i \in PathIds },
    action     |-> { <<"posts", i, "archive">> : i \in PathIds },
    client     |-> { <<"posts">>, <<"1">> },
    strip      |-> { <<"authors", i, "titles">> : i \in PathIds } ]

\* The suites run together; `strip` is run on its own (SpecStrip).
Suites == (DOMAIN SuiteUrls) \ {"strip"}

Urls == SuiteUrls[suite]

\* Request bodies, by the entity the endpoint serves.
ObjectBodies(model) ==
  CASE model = "posts" ->
         { Obj(("title" :> Str("Baz")) @@ ("author_id" :> Num(2))),
           Obj(("id" :> Num(2)) @@ ("title" :> Str("Baz"))) }
    [] model = "authors" ->
         { Obj("name" :> Str("Jack Doe")),
           Obj("id" :> Num(2)) }
    [] model = "profile" ->
         { Obj("username" :> Str("test")),
           Obj("backup" :> Obj("username" :> Str("test"))),
           Obj("data" :> Obj("username" :> Str("test"))) }
    [] OTHER -> {}

ArrayBodies(model) ==
  CASE model = "posts" ->
         { Arr(<< Obj("title" :> Str("One")), Obj("title" :> Str("Two")) >>),
           Arr(<< Obj("id" :> Num(1)), Obj("id" :> Num(3)) >>) }
    [] OTHER -> {}

\* The bodies sent with a POST or PUT to a path: arrays go to collection
\* endpoints only, and a verb the endpoint does not bind is tried once.
Bodies(url, verb) ==
  LET e == normalize(url).endpoint
      opt == IF e \in DOMAIN AppApi THEN AppApi[e] ELSE NoOptions
  IN  CASE verb \notin Methods(opt) -> {Undef}
        [] opt.type = "collection" -> ObjectBodies(opt.model) \cup ArrayBodies(opt.model)
        [] opt.type \in {"model", "singleton"} -> ObjectBodies(opt.model)
        [] OTHER -> {Undef}

\* Some collection holds the stray `data` key; what later calls do with such a
\* store is not modelled.
Stray(d) == \E m \in Models : d[m].kind = "collection" /\ d[m].stray

\* No collection outgrows the model's bound.
WithinBounds(d) == \A m \in Models : d[m].kind = "collection" => d[m].head <= MaxHead

Idle == [kind |-> "idle"]

\* An interceptor whose executor would run when the promise is awaited: the call
\* itself returns a pending promise and touches nothing.
InterceptDeferred(d, base, verb, url, data) ==
  [db |-> d, promise |-> Pending, invoked |-> TRUE]

\* An interceptor under the base url `base`: the path parsed and matched is
\* base + url, while a NotFound rejection names the url as it was given.
Intercept(d, base, verb, url, data) ==
  LET Named(o) == IF o.promise.state = "rejected" /\ o.promise.reason = NotFound(base \o url)
                  THEN [o EXCEPT !.promise = Rejected(NotFound(url))]
                  ELSE o
  IN  Named(Dispatch(d, verb, base \o url, data))

\* One intercepted call: the executor runs to its end when the call is made; the
\* settled promise is held in `last` until the caller takes it.
\* `url` of the record is the path that was matched (baseUrl + url), `path` the
\* url the caller gave.
Request(verb, url, data) ==
  LET Settled(o) ==
        /\ WithinBounds(o.db)
        /\ db' = o.db
        /\ last' = [kind |-> "request", verb |-> verb, url |-> baseUrl \o url,
                    path |-> url, data |-> data,
                    promise |-> o.promise, invoked |-> o.invoked]
  IN  /\ last = Idle
      /\ calls < MaxCalls
      /\ ~Stray(db)
      /\ Settled(Intercept(db, baseUrl, verb, url, data))
      /\ calls' = calls + 1
      /\ UNCHANGED <<suite, baseUrl>>

\* axios.get(url)
Get == \E url \in Urls : Request("get", url, Undef)

\* axios.post(url, data)
Post == \E url \in Urls : \E data \in Bodies(baseUrl \o url, "post") : Request("post", url, data)

\* axios.put(url, data)
Put_ == \E url \in Urls : \E data \in Bodies(baseUrl \o url, "put") : Request("put", url, data)

\* axios.delete(url)
Delete == \E url \in Urls : Request("delete", url, Undef)

\* server.reset(model); a test file calls reset() before each test, so a full
\* reset starts the count of the test's calls again.
Reset ==
  \E arg \in {Undef} \cup {Str(m) : m \in Models \cup {"comments", "toString"}} :
    LET r == ServerReset(db, arg)
    IN  /\ last = Idle
        /\ arg.t = "undefined" \/ calls < MaxCalls
        /\ ~Stray(db)
        /\ db' = r.db
        /\ calls' = IF arg.t = "undefined" THEN 0 ELSE calls + 1
        /\ UNCHANGED <<suite, baseUrl>>
        /\ last' = [kind |-> "reset", model |-> arg, thrown |-> (r.exc # NoExc),
                    changed |-> (r.db # db)]

\* The caller takes the settled promise (or reset's return) and goes on.
Await ==
  /\ last # Idle
  /\ last' = Idle
  /\ UNCHANGED <<db, calls, suite, baseUrl>>

Init ==
  /\ db = NewDb("live")
  /\ last = Idle
  /\ calls = 0
  /\ suite \in Suites
  /\ baseUrl = <<>>

Next == Get \/ Post \/ Put_ \/ Delete \/ Reset \/ Await

Spec == Init /\ [][Next]_vars

\* The requests to the nested collection whose exclusion list names its key.
InitStrip ==
  /\ db = NewDb("live")
  /\ last = Idle
  /\ calls = 0
  /\ suite = "strip"
  /\ baseUrl = <<>>

SpecStrip == InitStrip /\ [][Next]_vars

\* server.dump() called by the test between requests.
Dump ==
  LET Dumped(r) ==
        /\ db' = r.db
        /\ last' = [kind |-> "dump", thrown |-> (r.exc # NoExc),
                    result |-> IF r.exc # NoExc THEN <<>> ELSE r.ret]
  IN  /\ last = Idle
      /\ calls < MaxCalls
      /\ ~Stray(db)
      /\ Dumped(ServerDump(db))
      /\ calls' = calls + 1
      /\ UNCHANGED <<suite, baseUrl>>

NextDump == Next \/ Dump

SpecDump == Init /\ [][NextDump]_vars

\* A test that also calls reset() of a collection it takes from server.db.
StoreReset ==
  \E m \in {x \in Models : db[x].kind = "collection"} :
    /\ last = Idle
    /\ calls < MaxCalls
    /\ ~Stray(db)
    /\ db' = CollectionReset(db, m).db
    /\ calls' = calls + 1
    /\ UNCHANGED <<suite, baseUrl>>
    /\ last' = [kind |-> "store.reset", model |-> m]

NextStore == Next \/ StoreReset

SpecStore == Init /\ [][NextStore]_vars

\* The records a handler written by hand adds to a store.  They carry no id: the
\* collection is what assigns it.  One of posts brings a plain value under the
\* name of the computed field.
AddRecords(m) ==
  CASE m = "posts" ->
         { ("title" :> Str("New")),
           ("title" :> Str("New")) @@ ("author_id" :> Num(2)),
           ("author" :> Str("nobody")) }
    [] m = "authors" ->
         { ("name" :> Str("New")) @@ ("email" :> Null) }
    [] OTHER -> {}

\* A handler written by hand that calls this.db[model].add(record) and reads the
\* new record back with get under the id that add returned.
StoreAdd ==
  \E m \in {x \in Models : db[x].kind = "collection"} : \E r \in AddRecords(m) :
    LET Read(a, g) ==
          /\ WithinBounds(a.db)
          /\ db' = g.db
          /\ last' = [kind |-> "store.add", model |-> m, record |-> r,
                      added |-> a.ret, read |-> g.ret]
        Added(a) == Read(a, CollectionGet(a.db, m, Prop(a.ret.o, "id")))
    IN  /\ last = Idle
        /\ calls < MaxCalls
        /\ ~Stray(db)
        /\ Added(CollectionAdd(db, m, r))
        /\ calls' = calls + 1
        /\ UNCHANGED <<suite, baseUrl>>

NextAdd == Next \/ StoreAdd

SpecAdd == Init /\ [][NextAdd]_vars

\* The partials a handler written by hand gives to update of a store: the second
\* puts a plain value under the name of the computed field.
UpdatePartials(m) ==
  CASE m = "posts" -> { ("archived" :> [t |-> "bool", b |-> TRUE]),
                        ("author" :> Str("nobody")) }
    [] OTHER -> {}

\* A handler written by hand, of the shape of the archive handler: it calls
\* this.db[model].update(id, partial) and returns this.db[model].get(id).
StoreUpdate ==
  \E m \in {x \in Models : db[x].kind = "collection"} : \E p \in UpdatePartials(m) :
    \E id \in DOMAIN db[m].data :
      LET Read(g) ==
            /\ db' = g.db
            /\ last' = [kind |-> "store.update", model |-> m, id |-> id,
                        partial |-> p, read |-> g.ret]
          Updated(u) == Read(CollectionGet(u.db, m, Num(id)))
      IN  /\ last = Idle
          /\ calls < MaxCalls
          /\ ~Stray(db)
          /\ Updated(CollectionUpdate(db, m, Num(id), p))
          /\ calls' = calls + 1
          /\ UNCHANGED <<suite, baseUrl>>

NextTemplate == NextAdd \/ StoreUpdate

SpecTemplate == Init /\ [][NextTemplate]_vars

(* ------------------------------------------------------ calls not awaited *)

\* A call made while earlier promises are still held: new Promise runs its
\* executor inside the call, so the stores and the promise are final when the call
\* returns.  `last` then holds the promises not yet taken, in issue order.
Issue(verb, url, data) ==
  LET held == IF last = Idle THEN <<>> ELSE last.held
      Settled(o) ==
        /\ WithinBounds(o.db)
        /\ db' = o.db
        /\ last' = [kind |-> "batch",
                    held |-> Append(held, [kind |-> "request", verb |-> verb,
                                           url |-> baseUrl \o url, path |-> url,
                                           data |-> data, promise |-> o.promise,
                                           invoked |-> o.invoked])]
  IN  /\ last = Idle \/ last.kind = "batch"
      /\ suite = "collection"
      /\ url \in Urls
      /\ Len(held) < MaxHeld
      /\ calls < MaxCalls
      /\ ~Stray(db)
      /\ Settled(Intercept(db, baseUrl, verb, url, data))
      /\ calls' = calls + 1
      /\ UNCHANGED <<suite, baseUrl>>

\* The paths of the calls a test fires together.
BurstUrls == { <<"posts">>, <<"posts", "1">> }

\* Calls fired one after the other, awaited together later (Await takes them).
Burst ==
  \E url \in BurstUrls : \E verb \in {"get", "post", "put", "delete"} :
    \E data \in (IF verb \in {"post", "put"} THEN Bodies(baseUrl \o url, verb) ELSE {Undef}) :
      Issue(verb, url, data)

NextAsync == Burst \/ Reset \/ Await

SpecAsync == Init /\ [][NextAsync]_vars

(* ------------------------------------------------------ client instances *)

\* The base urls given to axios.create and to the config form: none ('') and
\* the two that make the paths of the client suite routable.
Bases == { <<>>, <<"posts">>, <<"authors">> }

\* The baseUrl of a params object: given with a value, or not given.
BaseParams == {[given |-> FALSE, url |-> <<>>]} \cup {[given |-> TRUE, url |-> b] : b \in Bases}

\* The method names given to the config form: "" stands for none given (get is
\* the default); fetch is not a method of axios.
MethodNames == {"", "get", "post", "put", "delete", "fetch"}

Verbs == {"get", "post", "put", "delete"}

\* axios.create(params): a base url in the params becomes the active one.
Create ==
  \E base \in BaseParams :
    /\ last = Idle
    /\ suite = "client"
    /\ baseUrl' = IF base.given THEN base.url ELSE baseUrl
    /\ last' = [kind |-> "create", base |-> base]
    /\ UNCHANGED <<db, calls, suite>>

\* axios(params), the config form: own is the base url of the params, name the method name, data the body ({} when none is given).  A name
\* that is no method of axios makes method(...) throw a TypeError out of the
\* call, before the statement that puts the base url back.
Generic ==
  \E own \in BaseParams : \E name \in MethodNames : \E url \in Urls :
    LET before == baseUrl
        base1  == IF own.given THEN own.url ELSE baseUrl
        method == IF name = "" THEN "get" ELSE name
        Settled(o, data) ==
          /\ WithinBounds(o.db)
          /\ db' = o.db
          /\ baseUrl' = before
          /\ last' = [kind |-> "generic", method |-> name, own |-> own, before |-> before,
                      thrown |-> FALSE, verb |-> method, url |-> base1 \o url,
                      path |-> url, data |-> data,
                      promise |-> o.promise, invoked |-> o.invoked]
    IN  /\ last = Idle
        /\ suite = "client"
        /\ calls < MaxCalls
        /\ ~Stray(db)
        /\ calls' = calls + 1
        /\ UNCHANGED suite
        /\ IF method \notin Verbs
           THEN /\ db' = db
                /\ baseUrl' = base1
                /\ last' = [kind |-> "generic", method |-> name, own |-> own,
                            before |-> before, thrown |-> TRUE, verb |-> method,
                            url |-> base1 \o url, path |-> url, data |-> Undef,
                            promise |-> Pending, invoked |-> FALSE]
           ELSE \E data \in (IF method \in {"post", "put"}
                               THEN Bodies(base1 \o url, method) \cup {Obj(Empty)}
                               ELSE {Obj(Empty)}) :
                  Settled(Intercept(db, base1, method, url, data), data)

NextBase == Next \/ Create \/ Generic

SpecBase == Init /\ [][NextBase]_vars

(* ------------------------------------------------------- the url parser *)

\* normalize character by character: a path is the list of its characters,
\* <<"/", "a", "/", "1">> is /a/1.
Alphabet == {"/", "a", "0", "1"}

Paths == UNION {[1..n -> Alphabet] : n \in 0..MaxPath}

IsDigit(c) == c \in DOMAIN DigitString

\* Number(digits) for a run of decimal digits.
RECURSIVE NumberOf(_)
NumberOf(ds) ==
  IF ds = <<>> THEN 0
  ELSE 10 * NumberOf(SubSeq(ds, 1, Len(ds) - 1)) + DigitString[ds[Len(ds)]]

\* url.match(/\/(\d+)/): the leftmost `/` that a digit follows, with the longest
\* run of digits after it; from is the place of the `/`, to of the last digit
\* (from = 0: no match).
Match(url) ==
  LET starts == {i \in 1..(Len(url) - 1) : url[i] = "/" /\ IsDigit(url[i + 1])}
  IN  IF starts = {} THEN [from |-> 0, to |-> 0]
      ELSE LET i == CHOOSE x \in starts : \A y \in starts : x <= y
               ends == {j \in (i + 1)..Len(url) : \A k \in (i + 1)..j : IsDigit(url[k])}
           IN  [from |-> i, to |-> CHOOSE j \in ends : \A k \in ends : k <= j]

\* normalize(url) on the characters of the path: the matched text is replaced
\* by /:id and the digits are cast to a number.
normalizePath(url) ==
  LET m == Match(url)
  IN  IF m.from = 0 THEN [id |-> Null, endpoint |-> url]
      ELSE [id |-> Num(NumberOf(SubSeq(url, m.from + 1, m.to))),
            endpoint |-> SubSeq(url, 1, m.from - 1) \o <<"/", ":", "i", "d">>
                           \o SubSeq(url, m.to + 1, Len(url))]

\* An interceptor parses the path it is given (the first statement of each).
Normalize ==
  \E url \in Paths :
    /\ last = Idle
    /\ last' = [kind |-> "normalize", url |-> url, result |-> normalizePath(url)]
    /\ UNCHANGED <<db, calls, suite, baseUrl>>

NextCodec == Normalize \/ Await

SpecCodec == Init /\ [][NextCodec]_vars

(* ------------------------------------------------------------ properties *)

\* The stores seeded from an array, and the length of the seed.
Collections == {m \in Models : AppData[m].t = "arr"}
SeedLen(m) == Len(AppData[m].a)

\* The handler options a path is routed to (NoOptions when it is not registered).
OptOf(url) ==
  IF normalize(url).endpoint \in DOMAIN AppApi THEN AppApi[normalize(url).endpoint]
  ELSE NoOptions

\* The last step was a call of `verb` whose promise resolved / was rejected.
ResolvedCall(l, verb) ==
  l.kind = "request" /\ l.verb = verb /\ l.promise.state = "resolved"

RejectedWith(l, status) ==
  /\ l.promise.state = "rejected"
  /\ l.promise.reason.t = "err"
  /\ l.promise.reason.status = status

\* What a read of seeded record i of collection m returns: its seeded fields, its
\* id, and the seeded author in place of the computed field.
SeedRecord(m, i) ==
  LET seed == AppData[m].a[i]
  IN  Obj([k \in (DOMAIN seed) \cup {"id"} |->
            IF k = "id" THEN Num(i)
            ELSE IF seed[k].t = "fn"
                 THEN Obj(("id" :> seed["author_id"]) @@
                          AppData["authors"].a[seed["author_id"].n])
                 ELSE seed[k]])

\* C1: a freshly built collection holds its n seeded records under 1..n in
\* declared order; every call leaves the counter at least where it was, the
\* identifiers it adds are exactly the ones above the old counter, and a record
\* created by POST gets the old counter plus one, so no identifier is handed
\* out twice even when its record was removed.
C1_Fresh ==
  calls = 0 =>
    \A m \in Collections :
      /\ db[m].head = SeedLen(m)
      /\ DOMAIN db[m].data = 1..SeedLen(m)
      /\ \A i \in 1..SeedLen(m) : db[m].data[i] = AppData[m].a[i]

C1_Step ==
  last'.kind = "request" =>
    /\ \A m \in Collections :
         /\ db'[m].head >= db[m].head
         /\ DOMAIN db[m].data \subseteq 1..db[m].head
         /\ (DOMAIN db'[m].data) \ (DOMAIN db[m].data) = (db[m].head + 1)..db'[m].head
    /\ ( /\ ResolvedCall(last', "post")
         /\ last'.data.t = "obj"
         /\ "id" \notin DOMAIN last'.data.o
         /\ \/ OptOf(last'.url).type = "collection"
            \/ /\ OptOf(last'.url).type = "model"
               /\ Nested(OptOf(last'.url), normalize(last'.url).id) )
       => /\ last'.promise.data.t = "obj"
          /\ last'.promise.data.o["id"] = Num(db[OptOf(last'.url).model].head + 1)

C1_IdentifiersNeverReused == [](C1_Fresh) /\ [][C1_Step]_vars

\* Reached: a record was created, removed, and the next one created got the
\* identifier after it.
C1_Witness ==
  /\ ResolvedCall(last, "post")
  /\ \E m \in Collections :
       /\ db[m].head = SeedLen(m) + 2
       /\ (SeedLen(m) + 1) \notin DOMAIN db[m].data
       /\ (SeedLen(m) + 2) \in DOMAIN db[m].data
       /\ last.promise.data.t = "obj"
       /\ last.promise.data.o["id"] = Num(SeedLen(m) + 2)

\* C2: in every state each record of a collection is read back with the
\* identifier it is stored under, the identifiers of all() are pairwise
\* distinct, and a PUT on /x/:id answers with that id, whatever `id` the
\* payload carried.
C2_IdMatchesKey ==
  /\ \A m \in Collections :
       /\ \A i \in DOMAIN db[m].data :
            /\ CollectionGet(db, m, Num(i)).ret.o["id"] = Num(i)
            /\ "id" \in DOMAIN db[m].data[i] => db[m].data[i]["id"] = Num(i)
       /\ LET all == CollectionAll(db, m).ret.a
          IN  /\ Len(all) = Cardinality(DOMAIN db[m].data)
              /\ \A i, j \in 1..Len(all) : i # j => all[i].o["id"] # all[j].o["id"]
  /\ ( /\ ResolvedCall(last, "put")
       /\ OptOf(last.url).type = "model"
       /\ OptOf(last.url).relation = ""
       /\ last.promise.data.t = "obj" )
     => last.promise.data.o["id"] = normalize(last.url).id

\* Reached: PUT /posts/1 with a payload whose id is 2 resolved.
C2_Witness ==
  /\ ResolvedCall(last, "put")
  /\ last.url = <<"posts", "1">>
  /\ DataId(last.data) = Num(2)
  /\ last.promise.data.t = "obj"
  /\ db["posts"].data[1]["title"] = Str("Baz")

\* C3: right after reset() without argument every collection reads as its seed
\* (same records, same ids, same fields), the next record it creates gets seed
\* size + 1, and every singleton reads as its seed.
C3_ResetRestoresAll ==
  (last.kind = "reset" /\ last.model = Undef) =>
    \A m \in Models :
      IF m \in Collections
      THEN /\ CollectionAll(db, m).ret = Arr([i \in 1..SeedLen(m) |-> SeedRecord(m, i)])
           /\ CollectionAdd(db, m, Empty).ret.o["id"] = Num(SeedLen(m) + 1)
      ELSE SingletonGet(db, m).ret = AppData[m]

\* Reached: a reset() that had something to undo.
C3_Witness == last.kind = "reset" /\ last.model = Undef /\ last.changed

\* C4: right after reset() of a collection taken from server.db the collection
\* holds its seeded records under 1..n with their seeded fields, and its
\* counter is n.
C4_StoreResetRestores ==
  last.kind = "store.reset" =>
    /\ db[last.model].head = SeedLen(last.model)
    /\ DOMAIN db[last.model].data = 1..SeedLen(last.model)
    /\ \A i \in 1..SeedLen(last.model) :
         Omit(db[last.model].data[i], {"id"}) = AppData[last.model].a[i]

\* C5: a DELETE on a singleton endpoint resolves with 204, and the GET that
\* follows returns exactly the seeded fields.
C5_DeleteRestoresSingleton ==
  (ResolvedCall(last, "delete") /\ OptOf(last.url).type = "singleton") =>
    /\ last.promise.status = 204
    /\ SingletonGet(db, OptOf(last.url).model).ret = AppData[OptOf(last.url).model]

\* No key of `exclude` in a response: in the object, or in any element of the list.
NoExcluded(data, exclude) ==
  CASE data.t = "obj" -> (DOMAIN data.o) \cap exclude = {}
    [] data.t = "arr" ->
         \A i \in 1..Len(data.a) : data.a[i].t = "obj" => (DOMAIN data.a[i].o) \cap exclude = {}
    [] OTHER -> TRUE

\* C6: no resolved response of an endpoint declared with exclude E carries a key
\* of E, for any verb, nested or not, single record or list.
C6_ExcludedNeverReturned ==
  (last.kind = "request" /\ last.promise.state = "resolved") =>
    NoExcluded(last.promise.data, OptOf(last.url).exclude)

\* C7: a DELETE on a model endpoint with relation and key, for a relation id p
\* that exists, resolves with 204, sets only the key field of relation record p
\* to null, and leaves the target store and every other record as they were.
C7_Step ==
  LET opt == OptOf(last'.url)
      p   == normalize(last'.url).id
  IN  ( /\ last'.kind = "request"
        /\ last'.verb = "delete"
        /\ opt.type = "model"
        /\ Nested(opt, p)
        /\ InData(p, db[opt.relation].data) )
      => /\ last'.promise = Resolved(204, Undef)
         /\ \A m \in Models \ {opt.relation} : db'[m] = db[m]
         /\ db'[opt.relation].head = db[opt.relation].head
         /\ DOMAIN db'[opt.relation].data = DOMAIN db[opt.relation].data
         /\ \A q \in (DOMAIN db[opt.relation].data) \ {p.n} :
              db'[opt.relation].data[q] = db[opt.relation].data[q]
         /\ db'[opt.relation].data[p.n][opt.key] = Null
         /\ Omit(db'[opt.relation].data[p.n], {opt.key, "id"})
              = Omit(db[opt.relation].data[p.n], {opt.key, "id"})

C7_NestedDeleteUnlinks == [][C7_Step]_vars

\* Reached: DELETE /posts/1/author resolved and post 1 has no author any more.
C7_Witness ==
  /\ ResolvedCall(last, "delete")
  /\ last.url = <<"posts", "1", "author">>
  /\ db["posts"].data[1]["author_id"] = Null
  /\ DOMAIN db["authors"].data = 1..SeedLen("authors")

\* C8: a DELETE on a model endpoint without relation resolves with 204 and the
\* record is gone; an identifier at or below the counter that is not stored
\* stays that way through every call (only a reset brings it back), and a GET
\* for such an identifier is rejected with 404.
C8_GetOfRemoved ==
  ( /\ last.kind = "request"
    /\ last.verb = "get"
    /\ OptOf(last.url).type = "model"
    /\ OptOf(last.url).relation = ""
    /\ ~InData(normalize(last.url).id, db[OptOf(last.url).model].data) )
  => RejectedWith(last, 404)

C8_Step ==
  /\ ( /\ last'.kind = "request"
       /\ last'.verb = "delete"
       /\ OptOf(last'.url).type = "model"
       /\ OptOf(last'.url).relation = "" )
     => /\ last'.promise = Resolved(204, Undef)
        /\ ~InData(normalize(last'.url).id, db'[OptOf(last'.url).model].data)
  /\ last'.kind = "request" =>
       \A m \in Collections : \A i \in 1..db[m].head :
         i \notin DOMAIN db[m].data => i \notin DOMAIN db'[m].data

C9_ResolvedStatus ==
  (last.kind = "request" /\ last.promise.state = "resolved") =>
    /\ last.verb \in {"get", "put"} => last.promise.status = 200
    /\ last.verb = "post" => last.promise.status = 201
    /\ last.verb = "delete" => last.promise.status = 204

\* Reached: a POST on a path with an id resolved.
C9_Witness ==
  /\ ResolvedCall(last, "post")
  /\ normalize(last.url).id # Null
  /\ last.promise.status = 201

\* The path is not routed for the verb: its pattern is not registered, is
\* registered as null, or its handler set does not bind the verb.
Unrouted(l) ==
  \/ normalize(l.url).endpoint \notin DOMAIN AppApi
  \/ AppApi[normalize(l.url).endpoint].type = "null"
  \/ l.verb \notin Methods(AppApi[normalize(l.url).endpoint])

\* C10: a call that is not routed is rejected with the NotFound error (status
\* 404), no handler runs and no store changes.
C10_Step ==
  (last'.kind = "request" /\ Unrouted(last')) =>
    /\ last'.promise = Rejected(NotFound(last'.url))
    /\ RejectedWith(last', 404)
    /\ ~last'.invoked
    /\ db' = db

Handled(d, l) == Invoke(d, OptOf(l.url), l.verb, l.data, normalize(l.url).id)

\* C11: a GET whose handler returns undefined is rejected with the Missing error
\* (status 404, a message that is not the NotFound message of the path) and is
\* not resolved.
C11_Step ==
  ( /\ last'.kind = "request"
    /\ last'.verb = "get"
    /\ ~Unrouted(last')
    /\ Handled(db, last').exc = NoExc
    /\ Handled(db, last').ret = Undef )
  => /\ last'.promise.state = "rejected"
     /\ last'.promise.reason = Missing(normalize(last'.url).id)
     /\ RejectedWith(last', 404)
     /\ last'.promise.reason.message # NotFound(last'.url).message

C12_Step ==
  last'.kind = "request" =>
    /\ (~Unrouted(last') /\ Handled(db, last').exc.t = "err")
         => last'.promise = Rejected(Handled(db, last').exc)
    /\ (last'.verb = "get" /\ last'.url = <<"errors", "forbidden">>)
         => last'.promise = Rejected([t |-> "err", status |-> 403, message |-> <<"Unauthorized">>])
    /\ (last'.verb = "get" /\ last'.url = <<"errors", "server">>)
         => last'.promise =
              Rejected([t |-> "err", status |-> 500, message |-> <<"Internal Server Error">>])
    /\ (RejectedWith(last', 403) \/ RejectedWith(last', 500))
         => /\ last'.invoked
            /\ Handled(db, last').exc = last'.promise.reason

C12_ThrownErrorUnmodified == [][C12_Step]_vars

\* Reached: GET /errors/forbidden was rejected with the handler's 403.
C12_Witness ==
  /\ last.kind = "request"
  /\ last.url = <<"errors", "forbidden">>
  /\ last.invoked
  /\ RejectedWith(last, 403)
  /\ last.promise.reason.message = <<"Unauthorized">>

\* C13: every rejected call carries an error object with a numeric status and a
\* message.
C13_FailuresCarryStatus ==
  (last.kind = "request" /\ last.promise.state = "rejected") =>
    /\ last.promise.reason.t = "err"
    /\ last.promise.reason.status \in Nat
    /\ "message" \in DOMAIN last.promise.reason

\* The call is a POST of one object to a collection endpoint, and the object's id
\* is not stored in `d`: the handler calls Collection.update for an absent id.
UpdatesAbsent(d, l) ==
  /\ l.kind = "request"
  /\ l.verb = "post"
  /\ OptOf(l.url).type = "collection"
  /\ l.data.t = "obj"
  /\ "id" \in DOMAIN l.data.o
  /\ ~InData(l.data.o["id"], d[OptOf(l.url).model].data)

\* C14: Collection.update for an id that is not in the collection fails with an
\* error of status 404 and leaves the collection and its counter unchanged.
C14_Step ==
  UpdatesAbsent(db, last') =>
    /\ Handled(db, last').exc.t = "err"
    /\ Handled(db, last').exc.status = 404
    /\ RejectedWith(last', 404)
    /\ db' = db

C14_UpdateAbsentIsNotFound == [][C14_Step]_vars

\* C15: a call's promise is never left pending, and its outcome is the first one
\* the executor reaches: the NotFound rejection of a call that is not routed,
\* else what the handler threw, else the Missing rejection of a GET that got
\* undefined, else the resolution with the handler's result.
C15_Settled ==
  last.kind = "request" => last.promise.state \in {"resolved", "rejected"}

C15_Step ==
  last'.kind = "request" =>
    last'.promise =
      IF Unrouted(last') THEN Rejected(NotFound(last'.url))
      ELSE IF Handled(db, last').exc # NoExc THEN Rejected(Handled(db, last').exc)
      ELSE IF last'.verb = "get" /\ Handled(db, last').ret = Undef
           THEN Rejected(Missing(normalize(last'.url).id))
      ELSE Resolved(CASE last'.verb = "post" -> 201
                      [] last'.verb = "delete" -> 204
                      [] OTHER -> 200,
                    Handled(db, last').ret)

C15_SettlesOnce == [](C15_Settled) /\ [][C15_Step]_vars

\* Reached: a call to the endpoint registered as null kept its NotFound rejection
\* although the executor went on and threw.
C15_Witness ==
  /\ last.kind = "request"
  /\ last.url = <<"hidden">>
  /\ last.promise = Rejected(NotFound(<<"hidden">>))
  /\ ~last.invoked

\* C16: reset(name) with a name that is not a store of the seed throws, and no
\* store changes.
C16_InvalidResetThrows ==
  (last.kind = "reset" /\ last.model.t = "str" /\ last.model.s \notin Models) =>
    /\ last.thrown
    /\ ~last.changed

\* C17: reset(name) with the name of a store leaves every other store as it was
\* and puts the named one back as seeded: a collection holds its seeded records
\* under 1..n, its counter is n and the next record it creates gets n + 1; a
\* singleton holds and reads as its seeded fields.
C17_Step ==
  (last'.kind = "reset" /\ last'.model.t = "str" /\ last'.model.s \in Models) =>
    LET m == last'.model.s
    IN  /\ ~last'.thrown
        /\ \A x \in Models \ {m} : db'[x] = db[x]
        /\ IF m \in Collections
           THEN /\ db'[m].head = SeedLen(m)
                /\ db'[m].data = [i \in 1..SeedLen(m) |-> AppData[m].a[i]]
                /\ CollectionAdd(db', m, Empty).ret.o["id"] = Num(SeedLen(m) + 1)
           ELSE /\ db'[m].data = AppData[m].o
                /\ SingletonGet(db', m).ret = AppData[m]

C17_ResetOneStore == [][C17_Step]_vars

\* Reached: reset('posts') undid a change of posts while a renamed author stayed.
C17_Witness ==
  /\ last.kind = "reset"
  /\ last.model = Str("posts")
  /\ last.changed
  /\ db["authors"].data[1]["name"] = Str("Jack Doe")

\* The identifier the i-th item of a POST gets: its own id when it carries one,
\* else the counter plus the number of items without id up to and including it.
ExpectedId(items, i, head) ==
  IF "id" \in DOMAIN items[i].o THEN items[i].o["id"]
  ELSE Num(head + Cardinality({j \in 1..i : "id" \notin DOMAIN items[j].o}))

\* The response record answers the i-th item: its id is the expected one and it
\* echoes the item's fields (but the excluded ones and the stamped key).
Answers(rec, items, i, head, opt) ==
  /\ rec.t = "obj"
  /\ rec.o["id"] = ExpectedId(items, i, head)
  /\ \A k \in (DOMAIN items[i].o) \ (opt.exclude \cup {opt.key, "id"}) :
       k \in DOMAIN rec.o /\ rec.o[k] = items[i].o[k]

\* C18: a resolved POST on a collection endpoint answers one object with one
\* record, and an array with an array of the same length in the same order; the
\* records it creates get the identifiers that follow the counter, in payload
\* order.
C18_Step ==
  (ResolvedCall(last', "post") /\ OptOf(last'.url).type = "collection") =>
    LET opt  == OptOf(last'.url)
        head == db[opt.model].head
        d    == last'.data
        r    == last'.promise.data
    IN  IF d.t = "arr"
        THEN /\ r.t = "arr"
             /\ Len(r.a) = Len(d.a)
             /\ \A i \in 1..Len(d.a) : Answers(r.a[i], d.a, i, head, opt)
        ELSE Answers(r, <<d>>, 1, head, opt)

C18_PostMirrorsPayload == [][C18_Step]_vars

\* Reached: POST /posts with two new records answered with ids 3 and 4 in order.
C18_Witness ==
  /\ ResolvedCall(last, "post")
  /\ last.url = <<"posts">>
  /\ last.data.t = "arr"
  /\ last.promise.data.t = "arr"
  /\ Len(last.promise.data.a) = 2
  /\ last.promise.data.a[1].o["id"] = Num(3)
  /\ last.promise.data.a[1].o["title"] = Str("One")
  /\ last.promise.data.a[2].o["id"] = Num(4)

\* What a read of every record of the endpoint's model returns, in key order, with
\* the excluded fields taken out.
Visible(d, opt) ==
  LET all == CollectionAll(d, opt.model).ret.a
  IN  [i \in 1..Len(all) |-> Obj(Omit(all[i].o, opt.exclude))]

\* The records of a list whose key field is p.
WithKey(recs, key, p) == SelectSeq(recs, LAMBDA rec : Prop(rec.o, key) = p)

\* C19: a GET on a collection endpoint with relation and key returns, for the
\* number p in the path, exactly the records whose key field is p (none: an empty
\* list); without a number in the path it returns every record in key order.
C19_NestedGetFilters ==
  (ResolvedCall(last, "get") /\ OptOf(last.url).type = "collection") =>
    LET opt == OptOf(last.url)
        p   == normalize(last.url).id
    IN  IF opt.relation # "" /\ opt.key # "" /\ p.t = "num"
        THEN last.promise.data = Arr(WithKey(Visible(db, opt), opt.key, p))
        ELSE last.promise.data = Arr(Visible(db, opt))

\* The identifiers of the records a GET of the nested endpoint returns for parent q.
NestedIds(d, opt, q) ==
  LET recs == ServerCollectionGet(d, opt, Num(q)).ret.a
  IN  {recs[i].o["id"] : i \in 1..Len(recs)}

\* The call is a POST of one new record to a collection endpoint with relation and
\* key, under a number in the path.
NestedCreate(l) ==
  /\ ResolvedCall(l, "post")
  /\ OptOf(l.url).type = "collection"
  /\ OptOf(l.url).relation # "" /\ OptOf(l.url).key # ""
  /\ normalize(l.url).id.t = "num"
  /\ l.data.t = "obj"
  /\ "id" \notin DOMAIN l.data.o

\* C20: a record created by POST on a nested collection endpoint under path id p
\* is stored with its key field equal to p, whatever key value the payload
\* carried, and afterwards the GET of that endpoint returns it for p and for no
\* other parent id.
C20_Step ==
  NestedCreate(last') =>
    LET opt == OptOf(last'.url)
        p   == normalize(last'.url).id
        new == db[opt.model].head + 1
    IN  /\ new \in DOMAIN db'[opt.model].data
        /\ Prop(db'[opt.model].data[new], opt.key) = p
        /\ \A q \in {DigitString[x] : x \in PathIds} :
             Num(new) \in NestedIds(db', opt, q) <=> q = p.n

C20_NestedPostStamps == [][C20_Step]_vars

\* The call is a PUT that reached the put handler of a collection endpoint.
CollectionPutCall(l) ==
  /\ l.kind = "request" /\ l.verb = "put" /\ l.invoked
  /\ OptOf(l.url).type = "collection"

\* Relation, key, a number in the path and an array payload are all there.
PutAllPresent(l) ==
  /\ OptOf(l.url).relation # "" /\ OptOf(l.url).key # ""
  /\ normalize(l.url).id.t = "num"
  /\ l.data.t = "arr"

\* Every item of the payload names a record the store d holds.
ItemsStored(d, m, items) ==
  \A i \in 1..Len(items) : items[i].t = "obj" /\ InData(Prop(items[i].o, "id"), d[m].data)

\* C21: the put handler of a collection endpoint changes data only when relation,
\* key, a number in the path and an array payload are all there: every record an
\* item names then holds the item's fields and the path id under the key, and the
\* response lists the updated records in payload order; in every other
\* combination the handler returns undefined and no store changes.
C21_Step ==
  CollectionPutCall(last') =>
    LET opt   == OptOf(last'.url)
        p     == normalize(last'.url).id
        items == last'.data.a
        r     == last'.promise.data
    IN  IF PutAllPresent(last')
        THEN ItemsStored(db, opt.model, items) =>
               /\ ResolvedCall(last', "put")
               /\ r.t = "arr" /\ Len(r.a) = Len(items)
               /\ \A i \in 1..Len(items) :
                    /\ r.a[i].t = "obj"
                    /\ Prop(r.a[i].o, "id") = items[i].o["id"]
                    /\ Prop(r.a[i].o, opt.key) = p
                    /\ Prop(db'[opt.model].data[items[i].o["id"].n], opt.key) = p
                    /\ \A k \in (DOMAIN items[i].o) \ {opt.key} :
                         Prop(db'[opt.model].data[items[i].o["id"].n], k) = items[i].o[k]
        ELSE /\ ResolvedCall(last', "put")
             /\ last'.promise.data = Undef
             /\ db' = db

C21_CollectionPut == [][C21_Step]_vars

\* The record of the store d that an item of a payload names holds the item's fields.
HoldsItem(d, m, item) ==
  /\ InData(Prop(item.o, "id"), d[m].data)
  /\ \A k \in (DOMAIN item.o) \ {"id"} : Prop(d[m].data[item.o["id"].n], k) = item.o[k]

\* The response record carries the item's id and its fields (but the excluded ones).
EchoesItem(rec, item, exclude) ==
  /\ rec.t = "obj"
  /\ Prop(rec.o, "id") = item.o["id"]
  /\ \A k \in (DOMAIN item.o) \ exclude : Prop(rec.o, k) = item.o[k]

\* C22: a PUT on a collection endpoint without relation and without a number in
\* the path, sent with a record that carries the id of a stored record, resolves
\* with status 200 and the updated record; sent with an array of such records it
\* resolves with the updated records in order; the store then holds the new
\* field values.
C22_Step ==
  ( /\ CollectionPutCall(last')
    /\ OptOf(last'.url).relation = ""
    /\ normalize(last'.url).id = Null
    /\ ItemsStored(db, OptOf(last'.url).model,
                   IF last'.data.t = "arr" THEN last'.data.a ELSE <<last'.data>>) ) =>
    LET opt   == OptOf(last'.url)
        items == IF last'.data.t = "arr" THEN last'.data.a ELSE <<last'.data>>
        r     == last'.promise.data
    IN  /\ ResolvedCall(last', "put")
        /\ last'.promise.status = 200
        /\ IF last'.data.t = "arr"
           THEN /\ r.t = "arr" /\ Len(r.a) = Len(items)
                /\ \A i \in 1..Len(items) : EchoesItem(r.a[i], items[i], opt.exclude)
           ELSE EchoesItem(r, items[1], opt.exclude)
        /\ \A i \in 1..Len(items) : HoldsItem(db', opt.model, items[i])

C22_PlainCollectionPut == [][C22_Step]_vars

\* The call reached a handler of a model endpoint bound with relation and key,
\* under a number in the path.
NestedModelCall(l, verb) ==
  /\ l.kind = "request" /\ l.verb = verb /\ l.invoked
  /\ OptOf(l.url).type = "model"
  /\ OptOf(l.url).relation # "" /\ OptOf(l.url).key # ""
  /\ normalize(l.url).id.t = "num"

\* The value relation record p holds under the key (undefined without the record).
KeyOf(d, opt, p) ==
  IF InData(p, d[opt.relation].data) THEN Prop(d[opt.relation].data[p.n], opt.key) ELSE Undef

\* The response is the stored record v of model m: its id and its stored fields,
\* but the excluded and the computed ones.
IsRecord(data, d, m, v, exclude) ==
  /\ data.t = "obj"
  /\ Prop(data.o, "id") = v
  /\ \A k \in (DOMAIN d[m].data[v.n]) \ exclude :
       d[m].data[v.n][k].t # "fn" => Prop(data.o, k) = d[m].data[v.n][k]

\* C23: a GET on a model endpoint bound with relation and key answers, for the
\* number p in the path, with the model record whose id relation record p holds
\* under the key; it is rejected with status 404 when relation record p is
\* absent, or when that value is null or not an id of the model store.
C23_NestedGetFollowsKey ==
  NestedModelCall(last, "get") =>
    LET opt == OptOf(last.url)
        v   == KeyOf(db, opt, normalize(last.url).id)
    IN  IF InData(v, db[opt.model].data)
        THEN /\ ResolvedCall(last, "get")
             /\ IsRecord(last.promise.data, db, opt.model, v, opt.exclude)
        ELSE RejectedWith(last, 404)

\* Reached: post 1 re-linked to author 2, then GET /posts/1/author answers author 2.
C23_Witness ==
  /\ NestedModelCall(last, "get")
  /\ last.url = <<"posts", "1", "author">>
  /\ ResolvedCall(last, "get")
  /\ last.promise.data.o["id"] = Num(2)
  /\ last.promise.data.o["name"] = Str("John Doe")

\* The records of store m as they are kept, without the id that a read writes
\* into a record (format: obj.id = data.id).
Kept(d, m) == [i \in DOMAIN d[m].data |-> Omit(d[m].data[i], {"id"})]

\* C24: a PUT on a model endpoint bound with relation and key, under path id p
\* with payload data: when relation record p and model record data.id both
\* exist, relation record p then holds data.id under the key, the response is
\* the record data.id and the records of the model store are as before; when
\* either is absent the handler returns undefined and no store changes.
C24_Step ==
  (NestedModelCall(last', "put") /\ last'.data.t = "obj") =>
    LET opt == OptOf(last'.url)
        p   == normalize(last'.url).id
        v   == DataId(last'.data)
    IN  IF InData(p, db[opt.relation].data) /\ InData(v, db[opt.model].data)
        THEN /\ ResolvedCall(last', "put")
             /\ IsRecord(last'.promise.data, db, opt.model, v, opt.exclude)
             /\ KeyOf(db', opt, p) = v
             /\ Kept(db', opt.model) = Kept(db, opt.model)
             /\ db'[opt.model].head = db[opt.model].head
        ELSE /\ ResolvedCall(last', "put")
             /\ last'.promise.data = Undef
             /\ db' = db

C24_NestedPutRelinks == [][C24_Step]_vars

\* Reached: PUT /posts/1/author {id: 2} answered with author 2, post 1 linked to it.
C24_Witness ==
  /\ NestedModelCall(last, "put")
  /\ last.url = <<"posts", "1", "author">>
  /\ ResolvedCall(last, "put")
  /\ last.promise.data.t = "obj"
  /\ last.promise.data.o["id"] = Num(2)
  /\ db["posts"].data[1]["author_id"] = Num(2)

\* C25: a POST on a model endpoint bound with relation and key, under the id p of
\* a stored relation record: a payload without id creates exactly one record of
\* the model store, a payload with the id of a stored record updates that record
\* and creates none; either way relation record p then holds the id of that
\* record under the key, and the response is that record without the excluded
\* fields.
C25_Step ==
  ( /\ NestedModelCall(last', "post")
    /\ last'.data.t = "obj"
    /\ InData(normalize(last'.url).id, db[OptOf(last'.url).relation].data)
    /\ "id" \in DOMAIN last'.data.o => InData(DataId(last'.data), db[OptOf(last'.url).model].data) ) =>
    LET opt  == OptOf(last'.url)
        p    == normalize(last'.url).id
        item == last'.data.o
        old  == DOMAIN db[opt.model].data
        v    == IF "id" \in DOMAIN item THEN item["id"] ELSE Num(db[opt.model].head + 1)
        r    == last'.promise.data
    IN  /\ ResolvedCall(last', "post")
        /\ DOMAIN db'[opt.model].data = (IF "id" \in DOMAIN item THEN old ELSE old \cup {v.n})
        /\ v.n \in DOMAIN db'[opt.model].data
        /\ "id" \notin DOMAIN item => v.n \notin old
        /\ \A k \in DOMAIN item : Prop(db'[opt.model].data[v.n], k) = item[k]
        /\ \A i \in old \ {v.n} : Kept(db', opt.model)[i] = Kept(db, opt.model)[i]
        /\ KeyOf(db', opt, p) = v
        /\ IsRecord(r, db', opt.model, v, opt.exclude)
        /\ \A k \in opt.exclude : k \notin DOMAIN r.o

C25_NestedPostLinks == [][C25_Step]_vars

\* Reached: POST /posts/1/author {name: "Jack Doe"} created author 3 and linked
\* post 1 to it.
C25_Witness ==
  /\ NestedModelCall(last, "post")
  /\ last.url = <<"posts", "1", "author">>
  /\ ResolvedCall(last, "post")
  /\ "id" \notin DOMAIN last.data.o
  /\ last.promise.data.t = "obj"
  /\ last.promise.data.o["id"] = Num(3)
  /\ DOMAIN db["authors"].data = {1, 2, 3}
  /\ db["posts"].data[1]["author_id"] = Num(3)

\* Reached: POST /posts/1/author {id: 2} updated author 2, created no record and
\* linked post 1 to author 2.
C25_WitnessUpdate ==
  /\ NestedModelCall(last, "post")
  /\ last.url = <<"posts", "1", "author">>
  /\ ResolvedCall(last, "post")
  /\ "id" \in DOMAIN last.data.o
  /\ DOMAIN db["authors"].data = {1, 2}
  /\ db["posts"].data[1]["author_id"] = Num(2)

\* C26: a PUT on a model endpoint without relation, under an id the store does
\* not hold, fails: its promise is not resolved, and no record is created or
\* changed.
C26_Step ==
  ( /\ last'.kind = "request" /\ last'.verb = "put" /\ last'.invoked
    /\ OptOf(last'.url).type = "model"
    /\ OptOf(last'.url).relation = ""
    /\ normalize(last'.url).id.t = "num"
    /\ ~InData(normalize(last'.url).id, db[OptOf(last'.url).model].data) ) =>
    /\ last'.promise.state = "rejected"
    /\ db' = db

C26_PutAbsentFails == [][C26_Step]_vars

CurrentAuthor(d, a) ==
  IF InData(a, d["authors"].data) THEN Obj(Put(d["authors"].data[a.n], "id", a)) ELSE Null

\* C28: a computed field is evaluated against the stores as they are at the read,
\* and its result is never written into the record: every GET of a post whose
\* record has the computed field `author` answers with the author record the
\* author store holds now under the post's author_id, and no stored post holds
\* an author record under `author`.
C28_ComputedIsCurrent ==
  /\ \A i \in DOMAIN db["posts"].data :
       Prop(db["posts"].data[i], "author") \in {Fn("getAuthor"), Undef}
  /\ ( /\ ResolvedCall(last, "get")
       /\ OptOf(last.url).type = "model"
       /\ OptOf(last.url).model = "posts"
       /\ OptOf(last.url).relation = ""
       /\ Prop(db["posts"].data[normalize(last.url).id.n], "author") = Fn("getAuthor") ) =>
       /\ last.promise.data.t = "obj"
       /\ Prop(last.promise.data.o, "author") =
            CurrentAuthor(db, Prop(db["posts"].data[normalize(last.url).id.n], "author_id"))

\* The last character of the path segment that starts at place i.
SegmentEnd(url, i) ==
  LET ends == {j \in i..Len(url) : \A k \in i..j : url[k] # "/"}
  IN  CHOOSE j \in ends : \A k \in ends : k <= j

\* C29: the url parser returns id = null and the path unchanged when no run of
\* digits directly follows a `/`; otherwise id is the numeric value of the first
\* such run, and endpoint is the path with the segment of that run replaced by
\* :id, every later segment, numeric or not, left as it is.
C29_Codec ==
  last.kind = "normalize" =>
    LET url == last.url
        m   == Match(url)
    IN  IF \A i \in 1..(Len(url) - 1) : ~(url[i] = "/" /\ IsDigit(url[i + 1]))
        THEN last.result = [id |-> Null, endpoint |-> url]
        ELSE /\ last.result.id = Num(NumberOf(SubSeq(url, m.from + 1, m.to)))
             /\ last.result.endpoint =
                  SubSeq(url, 1, m.from) \o <<":", "i", "d">>
                    \o SubSeq(url, SegmentEnd(url, m.from + 1) + 1, Len(url))

\* The call reached a handler of an endpoint without relation, under the id of a
\* stored post or author.
StoredIdCall(l, verb, type) ==
  /\ l.kind = "request" /\ l.verb = verb /\ l.invoked
  /\ OptOf(l.url).type = type
  /\ OptOf(l.url).relation = ""
  /\ InData(normalize(l.url).id, db[OptOf(l.url).model].data)

\* C30: a handler of get or delete is called with the id parsed from the path
\* and nothing else, a handler of post or put with the request body first and
\* that id second.  Seen from outside, under the id p of a stored record: GET
\* answers record p, DELETE removes record p, PUT writes the fields of the body
\* (but an id of its own) into record p, and the hand-written post handler
\* (data, id) of /posts/:id/archive marks post p and answers it.
C30_Step ==
  /\ StoredIdCall(last', "get", "model") =>
       /\ ResolvedCall(last', "get")
       /\ last'.promise.data.t = "obj"
       /\ Prop(last'.promise.data.o, "id") = normalize(last'.url).id
  /\ StoredIdCall(last', "delete", "model") =>
       /\ ResolvedCall(last', "delete")
       /\ DOMAIN db'[OptOf(last'.url).model].data =
            (DOMAIN db[OptOf(last'.url).model].data) \ {normalize(last'.url).id.n}
  /\ (StoredIdCall(last', "put", "model") /\ last'.data.t = "obj") =>
       /\ ResolvedCall(last', "put")
       /\ last'.promise.data.t = "obj"
       /\ Prop(last'.promise.data.o, "id") = normalize(last'.url).id
       /\ \A k \in (DOMAIN last'.data.o) \ {"id"} :
            Prop(db'[OptOf(last'.url).model].data[normalize(last'.url).id.n], k) = last'.data.o[k]
  /\ StoredIdCall(last', "post", "archive") =>
       /\ ResolvedCall(last', "post")
       /\ last'.promise.data.t = "obj"
       /\ Prop(last'.promise.data.o, "id") = normalize(last'.url).id
       /\ Prop(db'["posts"].data[normalize(last'.url).id.n], "archived") = [t |-> "bool", b |-> TRUE]
       /\ \A i \in (DOMAIN db["posts"].data) \ {normalize(last'.url).id.n} :
            Kept(db', "posts")[i] = Kept(db, "posts")[i]

C31_OwnBaseRestored ==
  (last.kind = "generic" /\ last.own.given) => baseUrl = last.before

\* The call reached a handler of a singleton endpoint.
SingletonCall(l, verb) ==
  /\ l.kind = "request" /\ l.verb = verb /\ l.invoked
  /\ OptOf(l.url).type = "singleton"

\* C32: a PUT on a singleton endpoint merges the fields of the payload into the
\* singleton and leaves the other fields as they were: the response is the data
\* a read showed before the call with the payload's fields written over it
\* (without the excluded fields), and a GET after it shows the same merged data.
C32_Step ==
  /\ (SingletonCall(last', "put") /\ last'.data.t = "obj") =>
       LET opt    == OptOf(last'.url)
           merged == Assign(SingletonGet(db, opt.model).ret.o, last'.data.o)
       IN  /\ ResolvedCall(last', "put")
           /\ last'.promise.data = Obj(Omit(merged, opt.exclude))
           /\ SingletonGet(db', opt.model).ret = Obj(merged)
  /\ SingletonCall(last', "get") =>
       /\ ResolvedCall(last', "get")
       /\ last'.promise.data =
            Obj(Omit(SingletonGet(db, OptOf(last'.url).model).ret.o, OptOf(last'.url).exclude))
       /\ SingletonGet(db', OptOf(last'.url).model).ret = SingletonGet(db, OptOf(last'.url).model).ret

C32_SingletonPutMerges == [][C32_Step]_vars

\* The promises held before and after a step.
Held(l) == IF l.kind = "batch" THEN l.held ELSE <<>>

\* C33: calls issued without awaiting run completely when they are issued, in
\* issue order: a call leaves the promises already held as they are, and its own
\* promise is settled when the call returns, with the result of its handler run
\* on the stores as the call before it left them, which the handler's writes
\* then replace as a whole.
C33_Step ==
  (last'.kind = "batch") =>
    LET n == Len(Held(last))
        e == last'.held[n + 1]
    IN  /\ Len(last'.held) = n + 1
        /\ SubSeq(last'.held, 1, n) = Held(last)
        /\ e.promise.state # "pending"
        /\ e.verb \in Methods(OptOf(e.url)) =>
             /\ e.invoked
             /\ db' = Handled(db, e).db
             /\ (Handled(db, e).exc = NoExc /\ Handled(db, e).ret # Undef) =>
                  e.promise = Resolved(StatusOf(e.verb), Handled(db, e).ret)
             /\ Handled(db, e).exc # NoExc => e.promise = Rejected(Handled(db, e).exc)
        /\ e.verb \notin Methods(OptOf(e.url)) => db' = db

C33_IssueOrder == [][C33_Step]_vars

\* Reached: POST /posts and GET /posts fired together; the promise of the GET,
\* issued second, lists the record the POST created, and the promise of the POST
\* is as it was.
C33_Witness ==
  /\ last.kind = "batch"
  /\ Len(last.held) = 2
  /\ last.held[1].verb = "post" /\ last.held[1].url = <<"posts">>
  /\ last.held[1].promise.state = "resolved"
  /\ last.held[1].promise.data.t = "obj"
  /\ last.held[1].promise.data.o["id"] = Num(3)
  /\ last.held[2].verb = "get" /\ last.held[2].url = <<"posts">>
  /\ last.held[2].promise.state = "resolved"
  /\ Len(last.held[2].promise.data.a) = 3

\* C34: after axios.create with base url B, every later get, post, put and delete,
\* and every config-form call without a base url of its own, is matched against
\* B followed by the given path, until another create sets another base url: a
\* call is matched against the active base url followed by its path, and the
\* active base url is B from the create on, changed by no step but a create
\* that gives one.
C34_Step ==
  /\ (last'.kind = "request" \/ (last'.kind = "generic" /\ ~last'.own.given)) =>
       last'.url = baseUrl \o last'.path
  /\ (last'.kind = "create" /\ last'.base.given) => baseUrl' = last'.base.url
  /\ ~(last'.kind = "create" /\ last'.base.given) => baseUrl' = baseUrl

C34_BaseUrlHolds == [][C34_Step]_vars

\* The partial that the call hands to update of the store, for the calls whose
\* handler is one update of the record under the path id: PUT on a model
\* endpoint without relation, and the archive action.
PartialOf(l) ==
  IF OptOf(l.url).type = "archive" THEN ("archived" :> [t |-> "bool", b |-> TRUE])
  ELSE DataMap(l.data)

UpdateCall(l) ==
  \/ StoredIdCall(l, "put", "model") /\ l.data.t = "obj"
  \/ StoredIdCall(l, "post", "archive")

\* C35: update(id, partial) of a stored id changes the fields that partial names
\* and nothing else: the other fields of the record, the other records of the
\* collection, the other stores and the counter are as before, and the result
\* is what get(id) returns afterwards.
C35_Step ==
  UpdateCall(last') =>
    LET opt     == OptOf(last'.url)
        m       == opt.model
        id      == normalize(last'.url).id
        partial == PartialOf(last')
        old     == Kept(db, m)[id.n]
        new     == Kept(db', m)[id.n]
    IN  /\ ResolvedCall(last', last'.verb)
        /\ DOMAIN new = (DOMAIN old) \cup ((DOMAIN partial) \ {"id"})
        /\ \A k \in (DOMAIN partial) \ {"id"} : new[k] = partial[k]
        /\ \A k \in (DOMAIN old) \ (DOMAIN partial) : new[k] = old[k]
        /\ DOMAIN db'[m].data = DOMAIN db[m].data
        /\ \A i \in (DOMAIN db[m].data) \ {id.n} : db'[m].data[i] = db[m].data[i]
        /\ db'[m].head = db[m].head
        /\ \A x \in Collections \ {m} : Kept(db', x) = Kept(db, x) /\ db'[x].head = db[x].head
        /\ db'["profile"] = db["profile"]
        /\ last'.promise.data = Obj(Omit(CollectionGet(db', m, id).ret.o, opt.exclude))

C35_UpdateFrame == [][C35_Step]_vars

\* Reached: PUT /posts/1 {title: "Baz", author_id: 2} changed title and author_id
\* of post 1 and left post 2 and the counter alone.
C35_Witness ==
  /\ last.kind = "request" /\ last.verb = "put"
  /\ last.url = <<"posts", "1">>
  /\ ResolvedCall(last, "put")
  /\ db["posts"].data[1]["title"] = Str("Baz")
  /\ db["posts"].data[1]["author"] = Fn("getAuthor")
  /\ db["posts"].data[2] = AppData["posts"].a[2]
  /\ db["posts"].head = 2

\* The names under which some record of store m holds a computed field.
ComputedNames(d, m) ==
  { k \in UNION { DOMAIN d[m].data[i] : i \in DOMAIN d[m].data } :
      \E i \in DOMAIN d[m].data : Prop(d[m].data[i], k).t = "fn" }

\* Some record of store m holds the function f under the name k.
HoldsComputed(d, m, k, f) ==
  \E i \in DOMAIN d[m].data : Prop(d[m].data[i], k) = f

\* C36: add(record) stores, under every name that some record of the collection
\* holds a computed field under and the input does not name, a computed field
\* that a record of the collection held under that name, and stores the fields
\* the input names as given.
C36_Step ==
  last'.kind = "store.add" =>
    LET m  == last'.model
        r  == last'.record
        id == Prop(last'.added.o, "id")
    IN  /\ last'.added.t = "obj"
        /\ id.t = "num"
        /\ id.n \in DOMAIN db'[m].data
        /\ \A k \in DOMAIN r : Prop(db'[m].data[id.n], k) = r[k]
        /\ \A k \in ComputedNames(db, m) \ DOMAIN r :
             /\ Prop(db'[m].data[id.n], k).t = "fn"
             /\ HoldsComputed(db, m, k, Prop(db'[m].data[id.n], k))

C36_AddInheritsAny == [][C36_Step]_vars

\* The stores d and e hold the same records under the same ids, the same counters
\* and the same singleton data (the id that a read writes into a record apart).
SameStores(d, e) ==
  /\ \A m \in Collections : Kept(d, m) = Kept(e, m) /\ d[m].head = e[m].head
  /\ \A m \in Models \ Collections : d[m] = e[m]

\* C37: a request whose promise is rejected leaves every store as it was before
\* the request: no record is created, changed or removed and no counter moves.
C37_Step ==
  (last'.kind = "request" /\ last'.promise.state = "rejected") => SameStores(db, db')

C37_RejectionIsAtomic == [][C37_Step]_vars

\* C38: after reset(modelName) replaced the posts store alone, the computed field
\* `author` of its records is read from the author store the server holds now:
\* a GET of a post answers with the author record that store holds under the
\* post's author_id.
C38_ResetOneReadsCurrent ==
  ( /\ ResolvedCall(last, "get")
    /\ OptOf(last.url).type = "model"
    /\ OptOf(last.url).model = "posts"
    /\ OptOf(last.url).relation = ""
    /\ db["posts"].env = "seed"
    /\ Prop(db["posts"].data[normalize(last.url).id.n], "author") = Fn("getAuthor") ) =>
    /\ last.promise.data.t = "obj"
    /\ Prop(last.promise.data.o, "author") =
         CurrentAuthor(db, Prop(db["posts"].data[normalize(last.url).id.n], "author_id"))

\* The records of the endpoint's store whose key field is p, in key order, each
\* without the excluded fields.
Linked(d, opt, p) ==
  LET all == CollectionAll(d, opt.model).ret.a
      sel == SelectSeq(all, LAMBDA rec : Prop(rec.o, opt.key) = p)
  IN  [i \in 1..Len(sel) |-> Obj(Omit(sel[i].o, opt.exclude))]

\* C39: a GET on a collection endpoint with relation and key whose exclusion
\* list names the key answers, for the number p >= 1 in the path, with exactly the
\* records whose stored key field is p, each without the excluded fields.
C39_FilterBeforeStrip ==
  ( /\ ResolvedCall(last, "get")
    /\ OptOf(last.url).type = "collection"
    /\ OptOf(last.url).relation # "" /\ OptOf(last.url).key # ""
    /\ OptOf(last.url).key \in OptOf(last.url).exclude
    /\ normalize(last.url).id.t = "num"
    /\ normalize(last.url).id.n >= 1 ) =>
    last.promise.data = Arr(Linked(db, OptOf(last.url), normalize(last.url).id))

\* What reading every record of store m returns: get(id) for each stored id in
\* key order for a collection, the formatted data for a singleton.
Snapshot(d, m) ==
  IF d[m].kind = "collection"
  THEN LET ids == Sorted(DOMAIN d[m].data)
       IN  Arr([i \in 1..Len(ids) |-> CollectionGet(d, m, Num(ids[i])).ret])
  ELSE SingletonGet(d, m).ret

\* C40: a GET request and dump() change no store (no record, no counter; the
\* id that format writes into the record it reads, equal to its key, apart), a GET
\* repeated at once answers as the first did, and dump() returns, under the name
\* of every store, what reading that store returns.
C40_Step ==
  /\ (last'.kind = "request" /\ last'.verb = "get") =>
       /\ SameStores(db, db')
       /\ Intercept(db', baseUrl, "get", last'.path, Undef).promise = last'.promise
  /\ last'.kind = "dump" =>
       /\ ~last'.thrown
       /\ SameStores(db, db')
       /\ DOMAIN last'.result = Models
       /\ \A m \in Models : last'.result[m] = Snapshot(db, m)
       /\ \A m \in Models : last'.result[m] = Snapshot(db', m)

====
